---- MODULE Spec2Model ----
(***************************************************************************)
(* Model of the MorisGuard analysis route (POST /api/analyze): the span    *)
(* reconciliation engine (postProcess, mergeOverlaps, reconcileOverall)    *)
(* and the request flow around the oracle call (analyzeWithRepair, POST).  *)
(*                                                                         *)
(* The repository holds two revisions of the route handler:                *)
(*   "part_002" : src/unnamed/part_002 (hint fallback, invalid-span filter,*)
(*                verdict derived from the issues only)                    *)
(*   "route"    : src/src/app/api/analyze/route.ts                         *)
(* Both are modelled; the variable handler says which one serves.          *)
(*                                                                         *)
(* Raw text, quotes, offense labels and rationales are TLA+ strings;       *)
(* offsets are 0-based and half open as in the source.                     *)
(***************************************************************************)
EXTENDS Integers, Sequences, FiniteSets, TLC

VARIABLES
  handler,   \* which revision of the route handler serves the request
  body,      \* the request body as req.json() delivers it
  script,    \* the outcomes the oracle gives to the first and second call
  pc,        \* position of the POST handler: "start", "call1", "call2", "done"
  text,      \* the clipped raw text under analysis
  hints,     \* buildHints(text)
  calls,     \* number of oracle calls started
  response,  \* the HTTP response: [status, result | error]
  X,         \* an issue list handed to mergeOverlaps directly
  merged,    \* mergeOverlaps(X)
  remerged,  \* mergeOverlaps(mergeOverlaps(X))
  options,   \* the options handed to normalizeForMatch directly
  normed,    \* normalizeForMatch(text, options): [norm, map]
  range,     \* a canonical range <<s, e>> handed to toOriginalSpan
  rawSpan,   \* toOriginalSpan(s, e, normed.map)
  reqs,      \* the requests in flight when several are handled concurrently
  rxIndex,   \* lastIndex of the process-wide compiled matchers
  lex,       \* a lexicon term under study: its bucket, forms and the text built from it
  ui         \* the state of the page component: CSV batches and their results

normVars == <<options, normed, range, rawSpan>>
concVars == <<reqs, rxIndex>>
sideVars == <<lex, ui>>
vars == <<handler, body, script, pc, text, hints, calls, response, X, merged, remerged,
          normVars, concVars, sideVars>>

(***************************************************************************)
(* Bounds of the model.                                                    *)
(***************************************************************************)
MaxIssues == 2    \* longest candidate list the oracle returns
MaxOffset == 4    \* largest offset a candidate carries (the texts are shorter)
MaxMerge == 3     \* longest issue list handed to mergeOverlaps directly
MaxPos == 1       \* largest offset of those issues
MaxText == 3      \* longest raw text handed to normalizeForMatch directly
MaxRepeat == 2    \* largest repeatMax option

(***************************************************************************)
(* JavaScript string primitives used by the handler.                       *)
(***************************************************************************)
Min(a, b) == IF a < b THEN a ELSE b
Max(a, b) == IF a > b THEN a ELSE b
MinOf(S) == CHOOSE x \in S : \A y \in S : x <= y
MaxOf(S) == CHOOSE x \in S : \A y \in S : x >= y

\* String.prototype.slice(a, b): negative indices count from the end, both
\* ends are clamped into [0, length], an inverted range is empty.
slice(s, a, b) ==
  LET n    == Len(s)
      from == IF a < 0 THEN Max(n + a, 0) ELSE Min(a, n)
      to   == IF b < 0 THEN Max(n + b, 0) ELSE Min(b, n)
  IN  IF to <= from THEN "" ELSE SubSeq(s, from + 1, to)

\* charAt(s, i): the character at 0-based index i
charAt(s, i) == SubSeq(s, i + 1, i + 1)

\* String.prototype.indexOf(needle): first 0-based occurrence, -1 when absent
indexOf(s, needle) ==
  LET hits == {i \in 0..(Len(s) - Len(needle)) : SubSeq(s, i + 1, i + Len(needle)) = needle}
  IN  IF hits = {} THEN -1 ELSE CHOOSE i \in hits : \A j \in hits : i <= j

\* String.prototype.includes(needle)
includes(s, needle) == indexOf(s, needle) >= 0

WhiteSpace == {" ", "\t", "\n", "\r"}

\* String.prototype.trim(): strips leading and trailing white space
trim(s) ==
  LET keep == {i \in 1..Len(s) : SubSeq(s, i, i) \notin WhiteSpace}
  IN  IF keep = {} THEN ""
      ELSE SubSeq(s, CHOOSE i \in keep : \A j \in keep : i <= j,
                     CHOOSE i \in keep : \A j \in keep : i >= j)

(***************************************************************************)
(* Normalizer (src/src/app/lib/normalize.ts)                               *)
(*                                                                         *)
(* Unicode data, restricted to the characters the model uses.  Module text *)
(* is ASCII, so three ASCII characters stand for non-ASCII ones:           *)
(*   "@" : e with acute accent (NFKD: "e" followed by a combining mark)    *)
(*   "~" : a combining acute accent on its own (category M)                *)
(*   "&" : the ligature fi (NFKD: "f" "i")                                 *)
(*   "^" : capital I with dot above, U+0130 (NFKD: "I" followed by a       *)
(*         combining dot; toLowerCase(): "i" followed by a combining dot,  *)
(*         two UTF-16 units)                                               *)
(***************************************************************************)
LowerLetters == {"a","b","c","d","e","f","g","h","i","j","k","l","m",
                 "n","o","p","q","r","s","t","u","v","w","x","y","z"}
UpperLetters == {"A","B","C","D","E","F","G","H","I","J","K","L","M",
                 "N","O","P","Q","R","S","T","U","V","W","X","Y","Z"}

\* \p{M}
isMark(ch) == ch = "~"

\* \p{L}
isLetter(ch) == ch \in LowerLetters \cup UpperLetters \cup {"@", "&", "^", "%"}

\* String.prototype.toLowerCase() of one character
toLowerCase(ch) ==
  CASE ch = "A" -> "a" [] ch = "B" -> "b" [] ch = "C" -> "c" [] ch = "D" -> "d"
    [] ch = "E" -> "e" [] ch = "F" -> "f" [] ch = "G" -> "g" [] ch = "H" -> "h"
    [] ch = "I" -> "i" [] ch = "J" -> "j" [] ch = "K" -> "k" [] ch = "L" -> "l"
    [] ch = "M" -> "m" [] ch = "N" -> "n" [] ch = "O" -> "o" [] ch = "P" -> "p"
    [] ch = "Q" -> "q" [] ch = "R" -> "r" [] ch = "S" -> "s" [] ch = "T" -> "t"
    [] ch = "U" -> "u" [] ch = "V" -> "v" [] ch = "W" -> "w" [] ch = "X" -> "x"
    [] ch = "Y" -> "y" [] ch = "Z" -> "z" [] ch = "^" -> "i~" [] OTHER -> ch

\* ch.normalize("NFKD").replace(/\p{M}+/gu, ""): compatibility decomposition
\* of one character with the combining marks removed.
foldChar(ch) ==
  CASE ch = "@" -> "e"
    [] ch = "&" -> "fi"
    [] ch = "~" -> ""
    [] ch = "^" -> "I"
    [] OTHER -> ch

\* One pass of the inner loop body: canonical character c, produced by raw index i.
EmitChar(st, c, i, repeatMax) ==
  IF c = st.prev
  THEN IF st.runLen < repeatMax
       THEN [st EXCEPT !.out = @ \o c, !.map = Append(@, i), !.runLen = @ + 1]
       ELSE st
  ELSE [out |-> st.out \o c, map |-> Append(st.map, i), prev |-> c, runLen |-> 1]

RECURSIVE EmitAll(_, _, _, _, _, _)
EmitAll(st, stripped, k, i, lower, repeatMax) ==
  IF k >= Len(stripped) THEN st
  ELSE LET c == IF lower THEN toLowerCase(charAt(stripped, k)) ELSE charAt(stripped, k)
       IN  EmitAll(EmitChar(st, c, i, repeatMax), stripped, k + 1, i, lower, repeatMax)

RECURSIVE NormLoop(_, _, _, _, _, _)
NormLoop(st, input, i, fold, lower, repeatMax) ==
  IF i >= Len(input) THEN st
  ELSE LET ch == charAt(input, i)
           st2 == IF fold
                  THEN EmitAll(st, foldChar(ch), 0, i, lower, repeatMax)
                  ELSE EmitChar(st, IF lower THEN toLowerCase(ch) ELSE ch, i, repeatMax)
       \* (the test always holds: it has TLC evaluate one pass before it
       \* starts the next, which keeps its stack shallow on long inputs)
       IN  IF Len(st2.map) >= 0 THEN NormLoop(st2, input, i + 1, fold, lower, repeatMax)
           ELSE st2

NormResult(st) == [norm |-> st.out, map |-> st.map]

\* opts is a record that may lack any of foldDiacritics, lowercase, repeatMax.
normalizeForMatch(input, opts) ==
  NormResult(NormLoop([out |-> "", map |-> <<>>, prev |-> "", runLen |-> 0], input, 0,
                      IF "foldDiacritics" \in DOMAIN opts THEN opts.foldDiacritics # FALSE ELSE TRUE,
                      IF "lowercase" \in DOMAIN opts THEN opts.lowercase # FALSE ELSE TRUE,
                      Max(1, IF "repeatMax" \in DOMAIN opts THEN opts.repeatMax ELSE 1)))

\* A variant of toOriginalSpan whose end is the raw index of the last
\* canonical character instead of the index after it
toOriginalSpanClosed(normStart, normEnd, map) ==
  IF Len(map) = 0 THEN [start |-> 0, end |-> 0]
  ELSE [start |-> map[Max(0, Min(normStart, Len(map) - 1)) + 1],
        end   |-> map[Max(0, Min(Max(normStart, normEnd - 1), Len(map) - 1)) + 1]]

\* A variant of toOriginalSpan whose end is the raw index of the canonical
\* character after the range, when there is one
toOriginalSpanToNext(normStart, normEnd, map) ==
  IF Len(map) = 0 THEN [start |-> 0, end |-> 0]
  ELSE [start |-> map[Max(0, Min(normStart, Len(map) - 1)) + 1],
        end   |-> IF normStart < normEnd /\ normEnd < Len(map)
                  THEN Max(map[Max(0, normEnd) + 1], map[Max(0, Min(normStart, Len(map) - 1)) + 1])
                  ELSE map[Max(0, Min(Max(normStart, normEnd - 1), Len(map) - 1)) + 1]
                       + (IF normStart < normEnd THEN 1 ELSE 0)]

\* map is 1-indexed here: map[k + 1] is the source's map[k].
toOriginalSpan(normStart, normEnd, map) ==
  IF Len(map) = 0 THEN [start |-> 0, end |-> 0]
  ELSE IF normStart >= normEnd
       THEN LET idx  == Max(0, Min(normStart, Len(map) - 1))
                orig == map[idx + 1]
            IN  [start |-> orig, end |-> orig]
       ELSE LET start  == map[Max(0, Min(normStart, Len(map) - 1)) + 1]
                endIdx == map[Max(0, Min(normEnd - 1, Len(map) - 1)) + 1]
            IN  [start |-> start, end |-> endIdx + 1]

(***************************************************************************)
(* Lexicon (src/src/app/lib/kmu-lexicon.ts)                                *)
(***************************************************************************)
OFFENSE_FOR_BUCKET ==
  [insults |-> "harassment", threats |-> "violence", violence |-> "violence",
   slur_bias |-> "hate"]

\* Object.keys(LEXICON), in declaration order
Buckets == <<"insults", "threats", "violence", "slur_bias">>

LEXICON ==
  [insults |-> <<"bet", "bete", "kouyon", "koyon", "kretin", "bourik", "idiot",
                 "stupide", "moron", "perdant", "loser", "sal", "malprop", "trash",
                 "garbag", "clueless">>,
   threats |-> <<"touy", "tue", "kill", "bat", "bate", "atake", "attack", "brile",
                 "burn", "tir", "tire", "shoot", "detwi", "detruire", "destroy",
                 "menas", "menace">>,
   violence |-> <<"vyolans", "violence", "mor", "lamor", "mori", "die", "death",
                  "lynch", "linch">>,
   slur_bias |-> <<"falourmama", "gogote", "pilone", "madras", "nation", "lascar",
                   "torma", "torpa", "morma", "morpa", "liki", "likimama", "kkliki",
                   "bachara">>]

(***************************************************************************)
(* Abbreviation expander and lexicon matcher (src/unnamed/part_002; the    *)
(* same code is in src/src/app/api/analyze/route.ts)                       *)
(***************************************************************************)
\* s.normalize("NFKD").replace(/\p{M}+/gu, "").toLowerCase()
RECURSIVE foldLower(_)
foldLower(s) ==
  IF s = "" THEN ""
  ELSE LET f == foldChar(charAt(s, 0))
       IN  (IF f = "" THEN ""
            ELSE IF Len(f) = 1 THEN toLowerCase(f)
            ELSE toLowerCase(charAt(f, 0)) \o toLowerCase(charAt(f, 1)))
           \o foldLower(SubSeq(s, 2, Len(s)))

\* folded.replace(/(\p{L})\1+/gu, "$1"): every run of one letter becomes that letter
RECURSIVE collapseLetterRuns(_)
collapseLetterRuns(s) ==
  IF Len(s) <= 1 THEN s
  ELSE IF isLetter(charAt(s, 0)) /\ charAt(s, 0) = charAt(s, 1)
       THEN collapseLetterRuns(SubSeq(s, 2, Len(s)))
       ELSE charAt(s, 0) \o collapseLetterRuns(SubSeq(s, 2, Len(s)))

basicNorm(s) == collapseLetterRuns(foldLower(s))

\* VOWEL_RX = /[aeiouy]/u
Vowels == {"a", "e", "i", "o", "u", "y"}
isVowel(ch) == ch \in Vowels
isConsonant(ch) == isLetter(ch) /\ ~isVowel(ch)

RECURSIVE cbvLoop(_, _)
cbvLoop(w, i) ==
  IF i >= Len(w) THEN ""
  ELSE LET c == charAt(w, i)
           n == IF i + 1 < Len(w) THEN charAt(w, i + 1) ELSE ""
       IN  (IF i = 0 /\ isConsonant(c) THEN c
            ELSE IF isConsonant(c) /\ isVowel(n) THEN c
            ELSE "")
           \o cbvLoop(w, i + 1)

consonantBeforeVowelInitials(w) == IF w = "" THEN "" ELSE cbvLoop(w, 0)

\* w.replace(VOWEL_RX, ""): VOWEL_RX has no g flag, so the first match only
noVowels(w) ==
  LET at == {i \in 0..(Len(w) - 1) : isVowel(charAt(w, i))}
  IN  IF at = {} THEN w
      ELSE LET i == CHOOSE i \in at : \A j \in at : i <= j
           IN  SubSeq(w, 1, i) \o SubSeq(w, i + 2, Len(w))

\* w.split(/\s+/).filter(Boolean): the maximal runs of non-space characters
RECURSIVE splitWords(_, _)
splitWords(w, cur) ==
  IF w = "" THEN (IF cur = "" THEN <<>> ELSE <<cur>>)
  ELSE IF charAt(w, 0) \in WhiteSpace
       THEN (IF cur = "" THEN <<>> ELSE <<cur>>) \o splitWords(SubSeq(w, 2, Len(w)), "")
       ELSE splitWords(SubSeq(w, 2, Len(w)), cur \o charAt(w, 0))

RECURSIVE joinInitials(_)
joinInitials(parts) ==
  IF parts = <<>> THEN ""
  ELSE slice(basicNorm(Head(parts)), 0, 1) \o joinInitials(Tail(parts))

tokenInitials(w) == joinInitials(splitWords(w, ""))

\* variants.add of a, b and c, each under its condition
AbbrevVariants(raw, w, a, b, c) ==
  (IF Len(a) >= 3 /\ a # w THEN <<a>> ELSE <<>>)
  \o (IF Len(b) >= 3 /\ b # w /\ ~(Len(a) >= 3 /\ a # w /\ a = b) THEN <<b>> ELSE <<>>)
  \o (IF includes(raw, " ") /\ Len(c) >= 2 /\ c # w
         /\ ~(Len(a) >= 3 /\ a # w /\ a = c) /\ ~(Len(b) >= 3 /\ b # w /\ b = c)
      THEN <<c>> ELSE <<>>)

AbbrevOf(raw, w) ==
  AbbrevVariants(raw, w, consonantBeforeVowelInitials(w), noVowels(w), tokenInitials(raw))

makeAbbrevForms(raw) == AbbrevOf(raw, basicNorm(raw))

\* [...altsSet]: the elements in insertion order, a repeated add being ignored
Distinct(seq) ==
  LET first == {k \in 1..Len(seq) : \A j \in 1..(k - 1) : seq[j] # seq[k]}
  IN  [i \in 1..Cardinality(first) |->
         seq[CHOOSE k \in first : Cardinality({j \in first : j < k}) = i - 1]]

\* What one lexicon term adds to altsSet: its base form, then its abbreviations
BaseAlt(base) == IF Len(base) > 0 THEN <<base>> ELSE <<>>
TermAlts(raw) == BaseAlt(basicNorm(raw)) \o makeAbbrevForms(raw)

\* The alternatives of one bucket's pattern, in the order they are joined.
RECURSIVE AllAlts(_, _)
AllAlts(terms, k) ==
  IF k > Len(terms) THEN <<>> ELSE TermAlts(terms[k]) \o AllAlts(terms, k + 1)

BucketAlts(terms) == Distinct(AllAlts(terms, 1))

\* BUCKET_REGEX[bucket] is (?<!\p{L})(?:alt|alt|...)(?!\p{L}) with flags gu; a
\* pattern is held as the sequence of its (literal) alternatives.  An empty
\* sequence is the never-matching pattern a^.
BUCKET_REGEX == [bucket \in DOMAIN LEXICON |-> BucketAlts(LEXICON[bucket])]

\* A right boundary that knows the ASCII letters only
BoundaryRAscii(s, p) == p >= Len(s) \/ charAt(s, p) \notin LowerLetters \cup UpperLetters

\* WORD_BOUNDARY_L and WORD_BOUNDARY_R at position p of s
BoundaryL(s, p) == p = 0 \/ ~isLetter(charAt(s, p - 1))
BoundaryR(s, p) == p >= Len(s) \/ ~isLetter(charAt(s, p))

\* The first index k with f[k] >= 0, and -1 when there is none
FirstHit(f) ==
  IF \A k \in DOMAIN f : f[k] < 0 THEN -1 ELSE MinOf({k \in DOMAIN f : f[k] >= 0})

\* The length matched at p: that of the first alternative that occurs at p and
\* is followed by the right boundary (the engine backtracks over the others);
\* -1 if there is none.
AltLenAt(s, p, alt) ==
  IF p + Len(alt) <= Len(s) /\ SubSeq(s, p + 1, p + Len(alt)) = alt
     /\ BoundaryR(s, p + Len(alt))
  THEN Len(alt) ELSE -1

FirstLen(lens) == IF FirstHit(lens) < 0 THEN -1 ELSE lens[FirstHit(lens)]

AltMatchAt(s, p, alts) ==
  IF ~BoundaryL(s, p) THEN -1
  ELSE FirstLen([k \in 1..Len(alts) |-> AltLenAt(s, p, alts[k])])

\* The leftmost position with a match, given the match length at each position
ExecResult(lens) ==
  IF FirstHit(lens) < 0 THEN [index |-> -1, len |-> 0]
  ELSE [index |-> FirstHit(lens), len |-> lens[FirstHit(lens)]]

\* rx.exec(norm) with rx.lastIndex = from: the leftmost match at or after from
BucketExec(s, from, alts) ==
  ExecResult([p \in from..(Len(s) - 1) |-> AltMatchAt(s, p, alts)])

(***************************************************************************)
(* Pattern matcher: STEREOTYPE_NORM_RX.  Each group is held as the         *)
(* sequence of the literals it can match, in the order the backtracking    *)
(* engine tries them (greedy optional parts first).                        *)
(***************************************************************************)
StereoSubjects ==
  <<"dimounnn", "dimounn", "dimoun", "fam", "zom",
    "immigrants", "immigrant", "immigrans", "immigran",
    "minorite", "relizyon", "religion", "ras", "etnisite", "ethnicite">>
StereoModals ==
  <<"zot", "bizin", "doit", "should", "must", "toultan", "toujours", "jamais", "zame">>
StereoPejoratives ==
  <<"parese", "lazy", "bet", "stupid", "inferyer", "inferieur", "kriminel",
    "criminals", "criminal", "feb", "faible", "weak">>
StereoGap == 60
SentenceEnd == {".", "!", "?", "\n"}

LitAt(s, p, lit) == p + Len(lit) <= Len(s) /\ SubSeq(s, p + 1, p + Len(lit)) = lit

\* A gap that may run across a sentence terminator
GapLensAcross(s, p) == 0..Min(StereoGap, Len(s) - p)

\* The gap lengths [^.!?\n]{0,60} can take at p, as a set
GapLens(s, p) ==
  {g \in 0..Min(StereoGap, Len(s) - p) :
     \A k \in p..(p + g - 1) : charAt(s, k) \notin SentenceEnd}

\* The result of the first alternative (ends[k] >= 0 is where the match that
\* takes alternative k ends, -1 that there is none)
FirstEnd(ends) == IF FirstHit(ends) < 0 THEN -1 ELSE ends[FirstHit(ends)]

\* The result of the longest gap: the quantifier is greedy
LastEnd(ends) ==
  IF \A g \in DOMAIN ends : ends[g] < 0 THEN -1
  ELSE ends[MaxOf({g \in DOMAIN ends : ends[g] >= 0})]

\* Where the first successful way to match the groups from p on ends, -1 if none.
PejorativeEnd(s, p) ==
  FirstEnd([k \in 1..Len(StereoPejoratives) |->
              IF LitAt(s, p, StereoPejoratives[k]) THEN p + Len(StereoPejoratives[k]) ELSE -1])

Gap2End(s, p) == LastEnd([g \in GapLens(s, p) |-> PejorativeEnd(s, p + g)])

ModalEnd(s, p) ==
  FirstEnd([k \in 1..Len(StereoModals) |->
              IF LitAt(s, p, StereoModals[k])
              THEN Gap2End(s, p + Len(StereoModals[k])) ELSE -1])

Gap1End(s, p) == LastEnd([g \in GapLens(s, p) |-> ModalEnd(s, p + g)])

StereoMatchEnd(s, p) ==
  FirstEnd([k \in 1..Len(StereoSubjects) |->
              IF LitAt(s, p, StereoSubjects[k])
              THEN Gap1End(s, p + Len(StereoSubjects[k])) ELSE -1])

StereoLenAt(p, end) == IF end < 0 THEN -1 ELSE end - p

\* STEREOTYPE_NORM_RX.exec(norm) with lastIndex = from
StereoExec(s, from) ==
  ExecResult([p \in from..(Len(s) - 1) |-> StereoLenAt(p, StereoMatchEnd(s, p))])

(***************************************************************************)
(* buildHints                                                              *)
(***************************************************************************)
SpanHint(txt, span, kind) ==
  [start |-> span.start, end |-> span.end,
   quote |-> slice(txt, span.start, span.end), kind |-> kind]

HintOf(txt, nm, m, kind) ==
  SpanHint(txt, toOriginalSpan(m.index, m.index + m.len, nm.map), kind)

\* the while loop of the dictionary pass for one bucket: m is what exec returned
RECURSIVE BucketHints(_, _, _, _)
BucketStep(txt, nm, bucket, m) ==
  IF m.index < 0 THEN <<>>
  ELSE <<HintOf(txt, nm, m, OFFENSE_FOR_BUCKET[bucket])>>
       \o BucketHints(txt, nm, bucket, m.index + m.len)

BucketHints(txt, nm, bucket, lastIndex) ==
  BucketStep(txt, nm, bucket, BucketExec(nm.norm, lastIndex, BUCKET_REGEX[bucket]))

RECURSIVE DictionaryHints(_, _, _)
DictionaryHints(txt, nm, b) ==
  IF b > Len(Buckets) THEN <<>>
  ELSE BucketHints(txt, nm, Buckets[b], 0) \o DictionaryHints(txt, nm, b + 1)

\* the while loop of the stereotype pass
RECURSIVE StereotypeHints(_, _, _)
StereotypeStep(txt, nm, m) ==
  IF m.index < 0 THEN <<>>
  ELSE <<HintOf(txt, nm, m, "bias")>> \o StereotypeHints(txt, nm, m.index + m.len)

StereotypeHints(txt, nm, lastIndex) ==
  StereotypeStep(txt, nm, StereoExec(nm.norm, lastIndex))

HintsOf(txt, nm) == DictionaryHints(txt, nm, 1) \o StereotypeHints(txt, nm, 0)

\* buildHints with every run collapsed to one character, as it once was
buildHintsRepeatOne(txt) ==
  HintsOf(txt, normalizeForMatch(txt, [foldDiacritics |-> TRUE, lowercase |-> TRUE,
                                       repeatMax |-> 1]))

buildHints(txt) ==
  HintsOf(txt, normalizeForMatch(txt, [foldDiacritics |-> TRUE, lowercase |-> TRUE,
                                       repeatMax |-> 2]))

(***************************************************************************)
(* Reconciler                                                              *)
(***************************************************************************)
clamp(n, min, max) == Max(min, Min(max, n))

\* Array.prototype.sort((a, b) => a.start - b.start): stable, by start.
RECURSIVE InsertByStart(_, _)
InsertByStart(sorted, x) ==
  IF sorted = <<>> THEN <<x>>
  ELSE IF sorted[Len(sorted)].start <= x.start THEN Append(sorted, x)
  ELSE Append(InsertByStart(SubSeq(sorted, 1, Len(sorted) - 1), x), sorted[Len(sorted)])

RECURSIVE SortByStart(_)
SortByStart(issues) ==
  IF issues = <<>> THEN <<>>
  ELSE InsertByStart(SortByStart(SubSeq(issues, 1, Len(issues) - 1)), issues[Len(issues)])

\* The separator of merged rationales, "\n" followed by an em dash and a space
\* in the source; the dash is written "-" here (module text is ASCII).
RationaleSep == "\n- "

\* The else-branch of the merge loop of src/unnamed/part_002: cur joins last.
MergeInto(last, cur) ==
  LET end      == Max(last.end, cur.end)
      offense1 == IF cur.severity > last.severity THEN cur.offense ELSE last.offense
      severity == Max(last.severity, cur.severity)
      offense2 == IF ~includes(offense1, cur.offense)
                  THEN offense1 \o ", " \o cur.offense
                  ELSE offense1
      rationale == trim(last.rationale \o RationaleSep \o cur.rationale)
      quote    == IF Len(cur.quote) > Len(last.quote) THEN cur.quote ELSE last.quote
  IN  [start |-> last.start, end |-> end, quote |-> quote, offense |-> offense2,
       severity |-> severity, rationale |-> rationale]

\* The else-branch of the merge loop of src/src/app/api/analyze/route.ts.
MergeIntoRoute(last, cur) ==
  LET end      == Max(last.end, cur.end)
      severity == Max(last.severity, cur.severity)
      offense  == IF ~includes(last.offense, cur.offense)
                  THEN last.offense \o ", " \o cur.offense
                  ELSE last.offense
      rationale == trim(last.rationale \o RationaleSep \o cur.rationale)
      quote    == IF Len(cur.quote) > Len(last.quote) THEN cur.quote ELSE last.quote
  IN  [start |-> last.start, end |-> end, quote |-> quote, offense |-> offense,
       severity |-> severity, rationale |-> rationale]

\* The loop over the sorted issues, out being the list built so far.
RECURSIVE MergeLoop(_, _, _)
MergeLoop(sorted, out, rev) ==
  IF sorted = <<>> THEN out
  ELSE LET cur  == Head(sorted)
           rest == Tail(sorted)
       IN  IF out = <<>> \/ cur.start > out[Len(out)].end
           THEN MergeLoop(rest, Append(out, cur), rev)
           ELSE MergeLoop(rest,
                          [out EXCEPT ![Len(out)] =
                             IF rev = "part_002" THEN MergeInto(@, cur)
                                                 ELSE MergeIntoRoute(@, cur)],
                          rev)

\* A variant of the merge loop that compares cur.start with the end of the
\* previous candidate instead of the end of the issue being built.
RECURSIVE MergeLoopPrev(_, _, _)
MergeLoopPrev(sorted, out, prevEnd) ==
  IF sorted = <<>> THEN out
  ELSE IF out = <<>> \/ Head(sorted).start > prevEnd
       THEN MergeLoopPrev(Tail(sorted), Append(out, Head(sorted)), Head(sorted).end)
       ELSE MergeLoopPrev(Tail(sorted),
                          [out EXCEPT ![Len(out)] = MergeInto(@, Head(sorted))],
                          Head(sorted).end)

mergeOverlapsPrev(issues) == MergeLoopPrev(SortByStart(issues), <<>>, 0)

\* A variant of the merge loop in which a candidate that starts exactly where
\* the open issue ends opens a new issue
RECURSIVE MergeLoopStrict(_, _)
MergeLoopStrict(sorted, out) ==
  IF sorted = <<>> THEN out
  ELSE IF out = <<>> \/ Head(sorted).start >= out[Len(out)].end
       THEN MergeLoopStrict(Tail(sorted), Append(out, Head(sorted)))
       ELSE MergeLoopStrict(Tail(sorted),
                            [out EXCEPT ![Len(out)] = MergeInto(@, Head(sorted))])

mergeOverlapsStrict(issues) == MergeLoopStrict(SortByStart(issues), <<>>)

mergeOverlaps(issues) == MergeLoop(SortByStart(issues), <<>>, "part_002")

mergeOverlapsRoute(issues) == MergeLoop(SortByStart(issues), <<>>, "route")

RECURSIVE MaxSeverity(_)
MaxSeverity(issues) ==
  IF issues = <<>> THEN 0 ELSE Max(MaxSeverity(Tail(issues)), Head(issues).severity)

OverallLabels == {"safe", "risky", "unsafe"}

\* The offense enum of responseSchema
OffenseKinds ==
  {"toxicity", "harassment", "hate", "violence", "sexual", "self-harm", "bullying",
   "spam", "misinformation", "bias", "stereotype"}

\* A variant of reconcileOverall without the severity-3 rule
reconcileOverallNoUnsafe(modelLabel, issues) ==
  IF Len(issues) = 0 THEN "safe"
  ELSE IF MaxSeverity(issues) >= 2 \/ Len(issues) >= 2 THEN "risky"
  ELSE "safe"

reconcileOverall(modelLabel, issues) ==
  IF Len(issues) = 0 THEN "safe"
  ELSE LET maxSev == MaxSeverity(issues)
       IN  IF maxSev >= 3 THEN "unsafe"
           ELSE IF maxSev >= 2 \/ Len(issues) >= 2 THEN "risky"
           ELSE "safe"

reconcileOverallRoute(modelLabel, issues) ==
  LET maxSev == MaxSeverity(issues)
  IN  IF maxSev >= 3 THEN "unsafe"
      ELSE IF maxSev = 2 \/ Len(issues) >= 2
           THEN (IF modelLabel = "safe" THEN "risky" ELSE modelLabel)
      ELSE modelLabel


\* Number(s) for the strings the model uses: a decimal numeral or "" (0) is
\* finite, any other string is NaN.
Digits == <<"0", "1", "2", "3", "4", "5", "6", "7", "8", "9">>
DigitValue(ch) == (CHOOSE k \in 1..10 : Digits[k] = ch) - 1
isNumeral(s) == \A i \in 0..(Len(s) - 1) : \E k \in 1..10 : Digits[k] = charAt(s, i)

RECURSIVE NumberOf(_)
NumberOf(s) ==
  IF s = "" THEN 0
  ELSE 10 * NumberOf(SubSeq(s, 1, Len(s) - 1)) + DigitValue(charAt(s, Len(s) - 1))

toNumberSeverity(s) == clamp(IF isNumeral(s) THEN NumberOf(s) ELSE 0, 0, 3)

\* What reading a field the oracle left out yields
Undefined == "undefined"

\* iss.offense, and toNumberSeverity(iss.severity): an undefined severity is not
\* a string and not finite, so it becomes 0
OffenseOf(iss) == IF "offense" \in DOMAIN iss THEN iss.offense ELSE Undefined
SeverityOf(iss) == IF "severity" \in DOMAIN iss THEN toNumberSeverity(iss.severity) ELSE 0

\* gemini.overall_label
LabelOf(gemini) ==
  IF "overall_label" \in DOMAIN gemini THEN gemini.overall_label ELSE Undefined

\* if (iss.quote && !quote.includes(iss.quote)) { idx = text.indexOf(iss.quote); if (idx >= 0) ...
Moves(txt, start, end, given) ==
  given # "" /\ ~includes(slice(txt, start, end), given) /\ indexOf(txt, given) >= 0

Anchored(iss, txt, start, end, given, move) ==
  [start     |-> IF move THEN indexOf(txt, given) ELSE start,
   end       |-> IF move THEN indexOf(txt, given) + Len(given) ELSE end,
   quote     |-> trim(IF move THEN given ELSE slice(txt, start, end)),
   offense   |-> OffenseOf(iss),
   severity  |-> SeverityOf(iss),
   rationale |-> trim(IF "rationale" \in DOMAIN iss THEN iss.rationale ELSE "")]

Ordered(iss, txt, start, end, given) ==
  Anchored(iss, txt, start, end, given, Moves(txt, start, end, given))

\* s0 and e0 are the clamped offsets; they are swapped when e0 < s0
Clamped(iss, txt, s0, e0) ==
  Ordered(iss, txt, IF e0 < s0 THEN e0 ELSE s0, IF e0 < s0 THEN s0 ELSE e0,
          IF "quote" \in DOMAIN iss THEN iss.quote ELSE "")

\* The callback of gemini.issues.map in postProcess (both revisions).  A field
\* the oracle left out is absent from the record iss.
FixIssue(iss, txt) ==
  Clamped(iss, txt,
          clamp(IF "start" \in DOMAIN iss THEN iss.start ELSE 0, 0, Len(txt)),
          clamp(IF "end" \in DOMAIN iss THEN iss.end ELSE 0, 0, Len(txt)))

RECURSIVE MapFix(_, _)
MapFix(issues, txt) ==
  IF issues = <<>> THEN <<>>
  ELSE <<FixIssue(Head(issues), txt)>> \o MapFix(Tail(issues), txt)

\* .filter((i) => i.end > i.start && i.quote.length > 0)
KeepIssue(i) == i.end > i.start /\ Len(i.quote) > 0

RECURSIVE Filter(_)
Filter(issues) ==
  IF issues = <<>> THEN <<>>
  ELSE (IF KeepIssue(Head(issues)) THEN <<Head(issues)>> ELSE <<>>) \o Filter(Tail(issues))

FallbackRationale == "Heuristic lexicon/stereotype flag"

\* hints.slice(0, 3).map(...) of the fallback
FallbackIssue(h, txt) ==
  [start     |-> clamp(h.start, 0, Len(txt)),
   end       |-> clamp(h.end, 0, Len(txt)),
   quote     |-> trim(slice(txt, h.start, h.end)),
   offense   |-> h.kind,
   severity  |-> 1,
   rationale |-> FallbackRationale]

FallbackCount == 3

\* A variant of the fallback that takes the last three hints
FallbackLast(hs, txt) ==
  [k \in 1..Min(FallbackCount, Len(hs)) |->
     FallbackIssue(hs[Len(hs) - Min(FallbackCount, Len(hs)) + k], txt)]

\* A variant of the fallback without slice(0, 3)
FallbackAll(hs, txt) == [k \in 1..Len(hs) |-> FallbackIssue(hs[k], txt)]

Fallback(hs, txt) ==
  [k \in 1..Min(FallbackCount, Len(hs)) |-> FallbackIssue(hs[k], txt)]

\* merged.length > 0 ? merged : hints.length > 0 ? hints.slice(0, 3).map(...) : []
WithFallback(merged1, hs, txt) ==
  IF Len(merged1) > 0 THEN merged1
  ELSE IF Len(hs) > 0 THEN Fallback(hs, txt)
  ELSE <<>>

Verdict(modelLabel, issues) ==
  [overall_label |-> reconcileOverall(modelLabel, issues), issues |-> issues]

\* postProcess of src/unnamed/part_002.  gemini is the parsed oracle output;
\* reading gemini.issues of an output without that field throws (see TryThrows).
postProcess(gemini, txt, hs) ==
  Verdict(LabelOf(gemini),
          WithFallback(mergeOverlaps(Filter(MapFix(gemini.issues, txt))), hs, txt))

VerdictRoute(modelLabel, issues) ==
  [overall_label |-> reconcileOverallRoute(modelLabel, issues), issues |-> issues]

\* postProcess of src/src/app/api/analyze/route.ts: no filter, no fallback.
postProcessRoute(gemini, txt) ==
  VerdictRoute(LabelOf(gemini), mergeOverlapsRoute(MapFix(gemini.issues, txt)))

\* Values of the variables a specification does not use
NormIdle == options = <<>> /\ normed = [norm |-> "", map |-> <<>>] /\ range = <<0, 0>>
            /\ rawSpan = [start |-> 0, end |-> 0]

\* The compiled matchers of the process, and their lastIndex after module load
Regexes == DOMAIN LEXICON \cup {"STEREOTYPE_NORM_RX"}
IndexesAtRest == [rx \in Regexes |-> 0]

ConcIdle == reqs = <<>> /\ rxIndex = IndexesAtRest /\ lex = <<>> /\ ui = <<>>

(***************************************************************************)
(* Request flow: POST and analyzeWithRepair                                 *)
(*                                                                         *)
(* body is what req.json() delivers: kind "malformed" (the promise rejects *)
(* and the catch substitutes {}), "notext" (no text field), "nonstring" (a *)
(* text field that is not a string) or "string".  An oracle outcome is     *)
(* [kind |-> "reject", name |-> n] (generateContent rejects; n is          *)
(* "AbortError" when the timeout aborted it) or [kind |-> "resolve",       *)
(* json |-> ..] with json FALSE when JSON.parse throws on the text and     *)
(* otherwise value the parsed output, which may lack the issues field.     *)
(***************************************************************************)
Handlers == {"part_002", "route"}

MAX_TEXT_CHARS == 8000
TIMEOUT_MS == 20000

NoResponse == [status |-> 0]

\* A try block that always ends in its catch
TryThrowsAlways(o) == TRUE

\* try { JSON.parse(raw); postProcess(...) }: what makes the try block throw
TryThrows(o) == ~o.json \/ "issues" \notin DOMAIN o.value

AnalysisOf(h, gemini, txt, hs) ==
  IF h = "part_002" THEN postProcess(gemini, txt, hs) ELSE postProcessRoute(gemini, txt)

\* The catch block of POST
ErrorResponse(name) ==
  [status |-> 500,
   error |-> IF name = "AbortError" THEN "Demann finn depas delai" ELSE name]

\* POST up to the first await of the oracle
Receive ==
  /\ pc = "start"
  /\ IF body.kind = "nonstring"
     THEN /\ response' = ErrorResponse("TypeError")
          /\ pc' = "done"
          /\ UNCHANGED <<text, hints, calls>>
     ELSE LET t == IF body.kind = "string" THEN body.text ELSE ""
          IN  IF trim(t) = ""
              THEN /\ response' = [status |-> 400, error |-> "Text manke"]
                   /\ pc' = "done"
                   /\ UNCHANGED <<text, hints, calls>>
              ELSE /\ text' = (IF Len(t) > MAX_TEXT_CHARS THEN slice(t, 0, MAX_TEXT_CHARS) ELSE t)
                   /\ hints' = buildHints(text')
                   /\ calls' = 1
                   /\ pc' = "call1"
                   /\ UNCHANGED response
  /\ UNCHANGED <<handler, body, script, X, merged, remerged, normVars, concVars, sideVars>>

\* The first callGeminiJSON settles: analyzeWithRepair's try block, or the
\* rejection propagating to POST's catch.
Settle1 ==
  /\ pc = "call1"
  /\ LET o == script[1]
     IN  IF o.kind = "reject"
         THEN /\ response' = ErrorResponse(o.name)
              /\ pc' = "done"
              /\ UNCHANGED calls
         ELSE IF TryThrows(o)
         THEN /\ calls' = calls + 1
              /\ pc' = "call2"
              /\ UNCHANGED response
         ELSE /\ response' = [status |-> 200, result |-> AnalysisOf(handler, o.value, text, hints)]
              /\ pc' = "done"
              /\ UNCHANGED calls
  /\ UNCHANGED <<handler, body, script, text, hints, X, merged, remerged, normVars, concVars, sideVars>>

\* The second call settles: nothing catches what it throws but POST.
Settle2 ==
  /\ pc = "call2"
  /\ LET o == script[2]
     IN  IF o.kind = "reject"
         THEN response' = ErrorResponse(o.name)
         ELSE IF ~o.json THEN response' = ErrorResponse("SyntaxError")
         ELSE IF "issues" \notin DOMAIN o.value THEN response' = ErrorResponse("TypeError")
         ELSE response' = [status |-> 200, result |-> AnalysisOf(handler, o.value, text, hints)]
  /\ pc' = "done"
  /\ UNCHANGED <<handler, body, script, text, hints, calls, X, merged, remerged, normVars, concVars, sideVars>>

Next == Receive \/ Settle1 \/ Settle2

(***************************************************************************)
(* Inputs of the request flow                                              *)
(***************************************************************************)
RECURSIVE ListsUpTo(_, _)
ListsUpTo(pool, n) ==
  IF n = 0 THEN {<<>>}
  ELSE LET shorter == ListsUpTo(pool, n - 1)
       IN  shorter \cup {Append(l, c) : l \in {m \in shorter : Len(m) = n - 1}, c \in pool}

FlowTexts == {" ", "bet", "bte", "b t"}

Bodies ==
  {[kind |-> "malformed"], [kind |-> "notext"], [kind |-> "nonstring"]}
  \cup {[kind |-> "string", text |-> t] : t \in FlowTexts}

FlowCandidates ==
  { [start |-> 0, end |-> 2, quote |-> "", offense |-> "hate", severity |-> "1", rationale |-> "r"],
    [start |-> 1, end |-> 3, quote |-> "", offense |-> "bias", severity |-> "3", rationale |-> "r"],
    [start |-> 2, end |-> 2, quote |-> "", offense |-> "spam", severity |-> "2", rationale |-> "r"] }

FlowAnalyses ==
  {[overall_label |-> l, issues |-> is] :
      l \in {"safe", "unsafe"}, is \in ListsUpTo(FlowCandidates, MaxIssues)}

Rejections == {[kind |-> "reject", name |-> n] : n \in {"AbortError", "Error"}}
Unusable ==
  {[kind |-> "resolve", json |-> FALSE],
   [kind |-> "resolve", json |-> TRUE, value |-> [overall_label |-> "safe"]]}
Usable == {[kind |-> "resolve", json |-> TRUE, value |-> v] : v \in FlowAnalyses}

\* JSON of the wrong shape that the try block accepts: an issues array is
\* there, but the label or fields of an issue are not.
Misshapen ==
  {[kind |-> "resolve", json |-> TRUE, value |-> v] :
     v \in {[issues |-> <<>>],
            [overall_label |-> "safe", issues |-> <<[start |-> 0, end |-> 2]>>]}}

\* The oracle's outcomes in call order; a second one exists only when the
\* first makes analyzeWithRepair call again.
Scripts ==
  {<<o>> : o \in Rejections \cup Usable \cup Misshapen}
  \cup {<<o1, o2>> : o1 \in Unusable, o2 \in Rejections \cup Unusable \cup Usable \cup Misshapen}

Init ==
  /\ handler \in Handlers
  /\ body \in Bodies
  /\ script \in Scripts
  /\ pc = "start"
  /\ text = ""
  /\ hints = <<>>
  /\ calls = 0
  /\ response = NoResponse
  /\ X = <<>>
  /\ merged = <<>>
  /\ remerged = <<>>
  /\ NormIdle /\ ConcIdle

Spec == Init /\ [][Next]_vars

(***************************************************************************)
(* Reconciliation on its own: postProcess applied to a raw text, the hints *)
(* buildHints finds in it, and a parsed oracle output.                     *)
(***************************************************************************)
gemini == script[1].value

Reconcile ==
  /\ pc = "reconcile"
  /\ hints' = buildHints(text)
  /\ response' = [status |-> 200, result |-> AnalysisOf(handler, gemini, text, hints')]
  /\ pc' = "done"
  /\ UNCHANGED <<handler, body, script, text, calls, X, merged, remerged, normVars, concVars, sideVars>>

NextReconcile == Reconcile

\* Candidates whose offsets range over everything the clamp, the swap and
\* the filter distinguish (negative, past the end, reversed, empty).
SpanText == "b t"
SpanCandidates ==
  {[start |-> s, end |-> e, quote |-> "", offense |-> "hate", severity |-> "2",
    rationale |-> "r"] : s \in (-1)..MaxOffset, e \in {0, 2, MaxOffset}}

\* Candidates that differ in severity, kind and the fields they carry, on
\* texts with no hint, one hint, and several hints.
HintTexts ==
  {"", "ok so", "bet", "bte", "tue sal", " bet ou", "bet bet bet bet", "fam zot bet"}
VerdictCandidates ==
  { [start |-> 0, end |-> 3, quote |-> "", offense |-> "harassment", severity |-> "1",
     rationale |-> "r1"],
    [start |-> 1, end |-> 3, quote |-> "", offense |-> "hate", severity |-> "3",
     rationale |-> "r2"],
    [start |-> 2, end |-> 2, quote |-> "", offense |-> "violence", severity |-> "3",
     rationale |-> "r3"],
    [start |-> 0, end |-> 1, quote |-> "", offense |-> "bias", severity |-> "2",
     rationale |-> " "],
    [quote |-> "sal", offense |-> "spam", severity |-> "x"],
    [start |-> 5, end |-> 4, quote |-> "zz", offense |-> "toxicity", severity |-> "7",
     rationale |-> "r6"] }

\* Candidates that carry a literal quote: one that occurs more than once, one
\* with a blank at its edge, a blank one, and one that occurs nowhere.
QuoteText == "ab ab c"
QuoteCandidates ==
  {[start |-> s, end |-> e, quote |-> q, offense |-> "hate", severity |-> "2",
    rationale |-> "r"] :
      s \in {0, 3}, e \in {0, 2}, q \in {"ab", "b ", " ", "zz"}}

ReconcileInputs ==
  {[text |-> SpanText, gemini |-> [overall_label |-> "safe", issues |-> is]] :
      is \in ListsUpTo(SpanCandidates, MaxIssues)}
  \cup {[text |-> QuoteText, gemini |-> [overall_label |-> "safe", issues |-> is]] :
          is \in ListsUpTo(QuoteCandidates, MaxIssues)}
  \cup {[text |-> t, gemini |-> [overall_label |-> l, issues |-> is]] :
          t \in HintTexts, l \in OverallLabels, is \in ListsUpTo(VerdictCandidates, MaxIssues)}

InitReconcile ==
  /\ handler \in Handlers
  /\ \E in \in ReconcileInputs :
        /\ text = in.text
        /\ body = [kind |-> "string", text |-> in.text]
        /\ script = <<[kind |-> "resolve", json |-> TRUE, value |-> in.gemini]>>
  /\ pc = "reconcile"
  /\ hints = <<>>
  /\ calls = 0
  /\ response = NoResponse
  /\ X = <<>>
  /\ merged = <<>>
  /\ remerged = <<>>
  /\ NormIdle /\ ConcIdle

SpecReconcile == InitReconcile /\ [][NextReconcile]_vars

(***************************************************************************)
(* mergeOverlaps on its own, applied once and once more to its result.     *)
(***************************************************************************)
MergeOf(h, issues) ==
  IF h = "part_002" THEN mergeOverlaps(issues) ELSE mergeOverlapsRoute(issues)

Merge ==
  /\ pc = "merge"
  /\ merged' = MergeOf(handler, X)
  /\ remerged' = MergeOf(handler, merged')
  /\ pc' = "done"
  /\ UNCHANGED <<handler, body, script, text, hints, calls, response, X, normVars, concVars, sideVars>>

NextMerge == Merge

MergeText == "ab cde"
MergeKinds ==
  {[severity |-> 1, offense |-> "hate"], [severity |-> 1, offense |-> "bias"],
   [severity |-> 3, offense |-> "bias"]}
\* Spans may be empty: the route.ts revision hands mergeOverlaps unfiltered issues.
MergeIssues ==
  {[start |-> s, end |-> e, quote |-> slice(MergeText, s, e), offense |-> k.offense,
    severity |-> k.severity, rationale |-> "r"] :
      s \in 0..MaxPos, e \in 0..MaxPos, k \in MergeKinds}

InitMerge ==
  /\ handler \in Handlers
  /\ X \in ListsUpTo({i \in MergeIssues : i.start <= i.end}, MaxMerge)
  /\ pc = "merge"
  /\ text = MergeText
  /\ body = [kind |-> "string", text |-> MergeText]
  /\ script = <<>>
  /\ hints = <<>>
  /\ calls = 0
  /\ response = NoResponse
  /\ merged = <<>>
  /\ remerged = <<>>
  /\ NormIdle /\ ConcIdle

SpecMerge == InitMerge /\ [][NextMerge]_vars

\* Candidates of one kind over a longer range of offsets: lists in which
\* spans nest, overlap, touch and lie apart.
MaxCoverPos == 3
CoverIssues ==
  {[start |-> s, end |-> e, quote |-> slice(MergeText, s, e), offense |-> "hate",
    severity |-> 1, rationale |-> "r"] : s \in 0..MaxCoverPos, e \in 0..MaxCoverPos}

InitCover ==
  /\ handler \in Handlers
  /\ X \in ListsUpTo({i \in CoverIssues : i.start <= i.end}, MaxMerge)
  /\ pc = "merge"
  /\ text = MergeText
  /\ body = [kind |-> "string", text |-> MergeText]
  /\ script = <<>>
  /\ hints = <<>>
  /\ calls = 0
  /\ response = NoResponse
  /\ merged = <<>>
  /\ remerged = <<>>
  /\ NormIdle /\ ConcIdle

SpecCover == InitCover /\ [][NextMerge]_vars

(***************************************************************************)
(* Properties of the reconciliation result                                 *)
(***************************************************************************)
Answered == pc = "done" /\ response.status = 200
result == response.result

\* C1: the issues postProcess returns are sorted by start ascending and any
\* two adjacent issues satisfy issues[i].end <= issues[i+1].start, on the
\* merged-candidate path and on the hint-fallback path.
C1_SortedNonOverlapping ==
  (Answered /\ handler = "part_002") =>
     \A k \in 1..(Len(result.issues) - 1) :
        /\ result.issues[k].start <= result.issues[k + 1].start
        /\ result.issues[k].end <= result.issues[k + 1].start

\* C2: every issue postProcess returns has quote equal to the raw text
\* between its final start and end, whitespace at the edges included, also
\* when the issue was merged from several candidates.
C2_QuoteIsSlice ==
  (Answered /\ handler = "part_002") =>
     \A k \in 1..Len(result.issues) :
        result.issues[k].quote = slice(text, result.issues[k].start, result.issues[k].end)

\* C3: every issue postProcess returns satisfies 0 <= start < end <= len(text),
\* whatever offsets the candidates carried; candidates left with an empty
\* span or a blank quote are not surfaced.
C3_SpanInBounds ==
  Answered =>
     \A k \in 1..Len(result.issues) :
        /\ 0 <= result.issues[k].start
        /\ result.issues[k].start < result.issues[k].end
        /\ result.issues[k].end <= Len(text)

\* C4: the overall label depends on the final issue list only: the same
\* candidates under any other oracle overall_label give the same label.
C4_LabelIgnoresOracleLabel ==
  Answered =>
     \A l \in OverallLabels :
        AnalysisOf(handler, [gemini EXCEPT !.overall_label = l], text, hints).overall_label
          = result.overall_label

\* The label section 4.6 prescribes for a final issue list
PrescribedLabel(issues) ==
  IF Len(issues) = 0 THEN "safe"
  ELSE IF \E k \in 1..Len(issues) : issues[k].severity >= 3 THEN "unsafe"
  ELSE IF (\E k \in 1..Len(issues) : issues[k].severity >= 2) \/ Len(issues) >= 2 THEN "risky"
  ELSE "safe"

\* C5: reconcileOverall returns safe for the empty list, unsafe when the
\* maximum severity is >= 3, risky when it is >= 2 or there are at least two
\* issues, and safe otherwise.
C5_LabelTable == Answered => result.overall_label = PrescribedLabel(result.issues)

\* A candidate of the oracle's list whose severity normalises to 3
IsSev3(c) == toNumberSeverity(c.severity) = 3

\* C6 as stated: a candidate list that contains a severity-3 candidate always
\* reconciles to unsafe.
C6_AnySev3Unsafe ==
  (Answered /\ handler = "part_002") =>
     ((\E k \in 1..Len(gemini.issues) : IsSev3(gemini.issues[k]))
        => result.overall_label = "unsafe")

\* C6: a candidate list that contains a severity-3 candidate which survives
\* validation (non-empty span and non-blank trimmed quote after clamping,
\* swapping and re-anchoring) always reconciles to unsafe.
C6_SurvivingSev3Unsafe ==
  Answered =>
     ((\E k \in 1..Len(gemini.issues) :
          IsSev3(gemini.issues[k]) /\ KeepIssue(FixIssue(gemini.issues[k], text)))
        => result.overall_label = "unsafe")

C6_Witness ==
  /\ Answered /\ handler = "part_002"
  /\ Len(gemini.issues) = 2
  /\ \E k \in 1..2 : IsSev3(gemini.issues[k]) /\ KeepIssue(FixIssue(gemini.issues[k], text))
  /\ \E k \in 1..2 : ~IsSev3(gemini.issues[k])
  /\ result.overall_label = "unsafe"

\* C7 as stated: an empty oracle list with at least one hint never yields safe.
C7_HintsNeverSafe ==
  (Answered /\ handler = "part_002" /\ Len(gemini.issues) = 0 /\ Len(hints) >= 1)
     => result.overall_label # "safe"

\* C7: an empty oracle list with k >= 1 hints yields the first min(3, k)
\* hints as severity-1 issues, and the label risky when k >= 2, safe when k = 1.
C7_HintFloor ==
  (Answered /\ handler = "part_002" /\ Len(gemini.issues) = 0 /\ Len(hints) >= 1) =>
     /\ Len(result.issues) = Min(3, Len(hints))
     /\ \A k \in 1..Len(result.issues) :
           /\ result.issues[k].severity = 1
           /\ result.issues[k].offense = hints[k].kind
           /\ result.issues[k].start = hints[k].start
           /\ result.issues[k].end = hints[k].end
     /\ result.overall_label = (IF Len(hints) >= 2 THEN "risky" ELSE "safe")

C7_Witness ==
  /\ Answered /\ handler = "part_002"
  /\ Len(gemini.issues) = 0
  /\ Len(hints) = 1
  /\ Len(result.issues) = 1
  /\ result.overall_label = "safe"

(***************************************************************************)
(* Properties of the request flow                                          *)
(***************************************************************************)
\* An oracle call that was started and rejected (abort on timeout, or any
\* other failure of the call)
OracleFailed == \E k \in 1..calls : script[k].kind = "reject"

\* C8: a request whose oracle call is cancelled, times out or fails still
\* ends with an analysis built from the local hints (the fallback applied to
\* an empty candidate list), not with an error.
C8_FailureFallsBackToHints ==
  (pc = "done" /\ OracleFailed) =>
     /\ response.status = 200
     /\ response.result.issues =
          (IF Len(hints) > 0 THEN Fallback(hints, text) ELSE <<>>)

(***************************************************************************)
(* Properties of mergeOverlaps                                             *)
(***************************************************************************)
\* The issues of X that went into the merged issue m
Contributors(m) == {k \in 1..Len(X) : m.start <= X[k].start /\ X[k].start <= m.end}

\* C9: a merged issue carries the maximum severity of its contributors and
\* exactly one offense kind, that of a highest-severity contributor, never a
\* comma-joined list, for every order and combination of severities.
C9_SingleStrongestOffense ==
  pc = "done" =>
     \A j \in 1..Len(merged) :
        /\ \A k \in Contributors(merged[j]) : X[k].severity <= merged[j].severity
        /\ \E k \in Contributors(merged[j]) :
              /\ X[k].severity = merged[j].severity
              /\ X[k].offense = merged[j].offense
        /\ merged[j].offense \in OffenseKinds

\* C10: mergeOverlaps is idempotent: merging the merged list again changes no
\* issue in any field.
C10_MergeIdempotent ==
  pc = "done" =>
     /\ Len(remerged) = Len(merged)
     /\ \A j \in 1..Len(merged) :
           /\ remerged[j].start = merged[j].start
           /\ remerged[j].end = merged[j].end
           /\ remerged[j].quote = merged[j].quote
           /\ remerged[j].offense = merged[j].offense
           /\ remerged[j].severity = merged[j].severity
           /\ remerged[j].rationale = merged[j].rationale

\* three candidates, unsorted, of which some but not all were merged
C10_Witness ==
  /\ pc = "done"
  /\ Len(X) = 3 /\ Len(merged) = 2
  /\ X[1].start > X[2].start
  /\ \E j \in 1..2 : includes(merged[j].offense, ", ")
  /\ remerged = merged

(***************************************************************************)
(* Properties of quote re-anchoring                                        *)
(***************************************************************************)
\* The raw text at the clamped (and, when reversed, swapped) offsets of c
ClampedSlice(c, txt) ==
  slice(txt,
        Min(clamp(IF "start" \in DOMAIN c THEN c.start ELSE 0, 0, Len(txt)),
            clamp(IF "end" \in DOMAIN c THEN c.end ELSE 0, 0, Len(txt))),
        Max(clamp(IF "start" \in DOMAIN c THEN c.start ELSE 0, 0, Len(txt)),
            clamp(IF "end" \in DOMAIN c THEN c.end ELSE 0, 0, Len(txt))))

SuppliesQuote(c) == "quote" \in DOMAIN c /\ c.quote # ""

\* C11: a single candidate whose quote q is not found at its clamped offsets
\* but occurs in the raw text yields one issue with start = first index of q,
\* end = start + len(q) and quote = the raw text between start and end.
C11_ReanchoredToFirstOccurrence ==
  (/\ Answered /\ Len(gemini.issues) = 1
   /\ SuppliesQuote(gemini.issues[1])
   /\ ~includes(ClampedSlice(gemini.issues[1], text), gemini.issues[1].quote)
   /\ indexOf(text, gemini.issues[1].quote) >= 0)
  => /\ Len(result.issues) = 1
     /\ result.issues[1].start = indexOf(text, gemini.issues[1].quote)
     /\ result.issues[1].end = result.issues[1].start + Len(gemini.issues[1].quote)
     /\ result.issues[1].quote = slice(text, result.issues[1].start, result.issues[1].end)

\* C12: candidates whose literal quote occurs nowhere in the raw text are
\* dropped: the result holds the issues it would hold without them.
C12_UnanchoredDropped ==
  (/\ Answered /\ Len(gemini.issues) >= 1
   /\ \A k \in 1..Len(gemini.issues) :
         SuppliesQuote(gemini.issues[k]) /\ indexOf(text, gemini.issues[k].quote) < 0)
  => result.issues = AnalysisOf(handler, [gemini EXCEPT !.issues = <<>>], text, hints).issues

(***************************************************************************)
(* Properties of the hint fallback                                         *)
(***************************************************************************)
\* Position of a hint kind in the detection order: the kinds of the lexicon
\* buckets in declaration order, then the kind of the stereotype pattern
KindRank(kind) ==
  CASE kind = "harassment" -> 1
    [] kind = "violence" -> 2
    [] kind = "hate" -> 3
    [] OTHER -> 4

\* hs is in detection order: kinds by rank, and within a kind that only one
\* pass produces, matches from left to right
InDetectionOrder(hs) ==
  \A j, k \in 1..Len(hs) :
     j < k => /\ KindRank(hs[j].kind) <= KindRank(hs[k].kind)
              /\ (hs[j].kind = hs[k].kind /\ hs[j].kind # "violence")
                    => hs[j].start < hs[k].start

\* C13: with an empty candidate list and k hints the issues are exactly the
\* first min(3, k) hints in detection order, each with the hint's span and
\* kind, severity 1 and the fixed rationale; with k = 0 there is no issue.
C13_FallbackFirstThree ==
  (Answered /\ handler = "part_002" /\ Len(gemini.issues) = 0) =>
     /\ InDetectionOrder(hints)
     /\ Len(result.issues) = Min(3, Len(hints))
     /\ \A k \in 1..Len(result.issues) :
           /\ result.issues[k].start = hints[k].start
           /\ result.issues[k].end = hints[k].end
           /\ result.issues[k].offense = hints[k].kind
           /\ result.issues[k].severity = 1
           /\ result.issues[k].rationale = "Heuristic lexicon/stereotype flag"

\* more hints than the fallback takes
C13_Witness ==
  /\ Answered /\ handler = "part_002" /\ Len(gemini.issues) = 0
  /\ Len(hints) = 4 /\ Len(result.issues) = 3
  /\ result.issues[3].start = hints[3].start
  /\ result.issues[3].start # hints[4].start

(***************************************************************************)
(* The normalizer on its own: normalizeForMatch applied to a raw text and  *)
(* an options object, then toOriginalSpan applied to a canonical range.    *)
(***************************************************************************)
Normalize ==
  /\ pc = "normalize"
  /\ normed' = normalizeForMatch(text, options)
  /\ pc' = "span"
  /\ UNCHANGED <<handler, body, script, text, hints, calls, response, X, merged, remerged,
                 options, range, rawSpan, concVars, sideVars>>

ToSpan ==
  /\ pc = "span"
  /\ \E s, e \in (-1)..(Len(normed.map) + 1) :
        /\ range' = <<s, e>>
        /\ rawSpan' = toOriginalSpan(s, e, normed.map)
  /\ pc' = "done"
  /\ UNCHANGED <<handler, body, script, text, hints, calls, response, X, merged, remerged,
                 options, normed, concVars, sideVars>>

NextNormalize == Normalize \/ ToSpan

\* Raw texts over a letter, its capital, a combining mark, a ligature and a
\* capital whose lower case is two units long
NormAlphabet == {"a", "A", "~", "&", "^"}

RECURSIVE TextsUpTo(_)
TextsUpTo(n) ==
  IF n = 0 THEN {""}
  ELSE TextsUpTo(n - 1)
       \cup {t \o c : t \in {u \in TextsUpTo(n - 1) : Len(u) = n - 1}, c \in NormAlphabet}

\* The options object: empty, with the two switches, or with all three fields
OptionObjects ==
  {<<>>}
  \cup {[foldDiacritics |-> f, lowercase |-> l] : f, l \in BOOLEAN}
  \cup {[foldDiacritics |-> f, lowercase |-> l, repeatMax |-> r] :
          f, l \in BOOLEAN, r \in 0..MaxRepeat}

InitNormalize ==
  /\ handler = "part_002"
  /\ text \in TextsUpTo(MaxText)
  /\ options \in OptionObjects
  /\ pc = "normalize"
  /\ body = [kind |-> "string", text |-> text]
  /\ script = <<>>
  /\ hints = <<>>
  /\ calls = 0
  /\ response = NoResponse
  /\ X = <<>>
  /\ merged = <<>>
  /\ remerged = <<>>
  /\ normed = [norm |-> "", map |-> <<>>]
  /\ range = <<0, 0>>
  /\ rawSpan = [start |-> 0, end |-> 0]
  /\ ConcIdle

SpecNormalize == InitNormalize /\ [][NextNormalize]_vars

(***************************************************************************)
(* Properties of the normalizer                                            *)
(***************************************************************************)
Normalized == pc \in {"span", "done"}

\* C14: for every raw text and every option combination the canonical text
\* and the index map have equal length; the empty text gives the empty
\* canonical text and the empty map.
C14_NormAndMapSameLength ==
  Normalized =>
     /\ Len(normed.norm) = Len(normed.map)
     /\ (text = "" => normed.norm = "" /\ normed.map = <<>>)

\* C15: toOriginalSpan(s, e, map) gives 0 <= rs <= re <= len(t) for every
\* s and e, rs < re whenever 0 <= s < e <= len(map), and (0, 0) for the empty
\* map; the map is non-decreasing and each entry is an index of t.
C15_SpanWithinText ==
  /\ Normalized =>
        /\ \A k \in 1..Len(normed.map) : 0 <= normed.map[k] /\ normed.map[k] < Len(text)
        /\ \A j, k \in 1..Len(normed.map) : j <= k => normed.map[j] <= normed.map[k]
  /\ pc = "done" =>
        /\ 0 <= rawSpan.start /\ rawSpan.start <= rawSpan.end /\ rawSpan.end <= Len(text)
        /\ (0 <= range[1] /\ range[1] < range[2] /\ range[2] <= Len(normed.map))
              => rawSpan.start < rawSpan.end
        /\ Len(normed.map) = 0 => rawSpan = [start |-> 0, end |-> 0]

\* a range that starts before the map and ends past it, over a map that
\* skips raw indexes and repeats one
C15_Witness ==
  /\ pc = "done"
  /\ range[1] < 0 /\ range[2] > Len(normed.map)
  /\ \E k \in 1..(Len(normed.map) - 1) : normed.map[k] = normed.map[k + 1]
  /\ normed.map[1] > 0
  /\ rawSpan.start < rawSpan.end

\* The options with the defaults the specification names filled in
WithNamedDefaults(o) ==
  [foldDiacritics |-> IF "foldDiacritics" \in DOMAIN o THEN o.foldDiacritics ELSE TRUE,
   lowercase |-> IF "lowercase" \in DOMAIN o THEN o.lowercase ELSE TRUE,
   repeatMax |-> IF "repeatMax" \in DOMAIN o THEN o.repeatMax ELSE 2]

\* C16: normalizeForMatch without a repeatMax option behaves as with
\* repeatMax = 2, and foldDiacritics and lowercase default to true.
C16_DefaultRepeatIsTwo ==
  Normalized => normed = normalizeForMatch(text, WithNamedDefaults(options))

(***************************************************************************)
(* The responses of POST                                                   *)
(***************************************************************************)
\* The fields and value ranges of the Issue and AnalysisResult types
IsIssue(i) ==
  /\ DOMAIN i = {"start", "end", "quote", "offense", "severity", "rationale"}
  /\ i.start \in Nat /\ i.end \in Nat
  /\ i.offense \in OffenseKinds
  /\ i.severity \in 0..3

IsAnalysisResult(r) ==
  /\ DOMAIN r = {"overall_label", "issues"}
  /\ r.overall_label \in OverallLabels
  /\ \A k \in 1..Len(r.issues) : IsIssue(r.issues[k])

BlankBody == body.kind \in {"malformed", "notext"} \/ (body.kind = "string" /\ trim(body.text) = "")

\* The handler has returned, and what it returned is one of the three
\* responses; until then there is no response and the handler is at its
\* entry or awaits an oracle outcome that the script holds.
ThreeResponses ==
  /\ pc # "done" =>
        /\ response = NoResponse
        /\ pc \in {"start", "call1", "call2"}
        /\ pc = "call1" => calls = 1 /\ Len(script) >= 1
        /\ pc = "call2" => calls = 2 /\ Len(script) >= 2
  /\ pc = "done" =>
        /\ \/ response = [status |-> 400, error |-> "Text manke"] /\ calls = 0 /\ BlankBody
           \/ response.status = 200 /\ DOMAIN response = {"status", "result"} /\ ~BlankBody /\ calls >= 1
           \/ response.status = 500 /\ DOMAIN response = {"status", "error"} /\ ~BlankBody
  /\ BlankBody => calls = 0

\* C17: for every request body and every oracle outcome POST returns exactly
\* one response: 400 for blank text without calling the oracle, 200 with an
\* AnalysisResult, or 500 with an error message; no exception escapes.
C17_OneResponseOfThreeKinds ==
  /\ ThreeResponses
  /\ Answered => IsAnalysisResult(result)

(***************************************************************************)
(* Concurrently handled requests                                           *)
(*                                                                         *)
(* reqs[r] is the invocation of POST for request r: its locals (text,      *)
(* hints), the oracle outcomes it will be given, where it stands and what  *)
(* it returned.  rxIndex[rx] is the lastIndex of the matcher rx, the one   *)
(* piece of state the invocations share.  An invocation runs without       *)
(* interruption from one await to the next, so buildHints is one step.     *)
(***************************************************************************)
\* rx.lastIndex = 0 and the while loop over rx.exec(norm): the index the object
\* held is overwritten before the first exec, and the exec that ends the loop
\* finds nothing, which sets lastIndex to 0.
ScanBucket(txt, nm, bucket, lastIndex) ==
  [hints |-> BucketHints(txt, nm, bucket, 0), lastIndex |-> 0]

\* A variant of the stereotype pass that calls exec once on the matcher as it
\* finds it
OnceResult(txt, nm, m) ==
  IF m.index < 0 THEN [hints |-> <<>>, lastIndex |-> 0]
  ELSE [hints |-> <<HintOf(txt, nm, m, "bias")>>, lastIndex |-> m.index + m.len]

ScanStereotypeOnce(txt, nm, lastIndex) == OnceResult(txt, nm, StereoExec(nm.norm, lastIndex))

ScanStereotype(txt, nm, lastIndex) ==
  [hints |-> StereotypeHints(txt, nm, 0), lastIndex |-> 0]

\* The dictionary pass from bucket b on; acc is the hints pushed so far and rx
\* the lastIndex of every matcher
RECURSIVE DictionaryScan(_, _, _, _, _)
DictionaryNext(txt, nm, b, rx, acc, one) ==
  DictionaryScan(txt, nm, b + 1, [rx EXCEPT ![Buckets[b]] = one.lastIndex], acc \o one.hints)

DictionaryScan(txt, nm, b, rx, acc) ==
  IF b > Len(Buckets) THEN [hints |-> acc, rx |-> rx]
  ELSE DictionaryNext(txt, nm, b, rx, acc, ScanBucket(txt, nm, Buckets[b], rx[Buckets[b]]))

StereotypeNext(d, one) ==
  [hints |-> d.hints \o one.hints,
   rx |-> [d.rx EXCEPT !["STEREOTYPE_NORM_RX"] = one.lastIndex]]

ScanAll(txt, nm, d) == StereotypeNext(d, ScanStereotype(txt, nm, d.rx["STEREOTYPE_NORM_RX"]))

HintsShared(txt, nm, rx) == ScanAll(txt, nm, DictionaryScan(txt, nm, 1, rx, <<>>))

\* buildHints with the matchers' state explicit: the hints, and the lastIndex
\* it leaves in every matcher
buildHintsShared(txt, rx) ==
  HintsShared(txt, normalizeForMatch(txt, [foldDiacritics |-> TRUE, lowercase |-> TRUE,
                                           repeatMax |-> 2]), rx)

\* POST up to the first await of the oracle, for request r
Clipped(t) == IF Len(t) > MAX_TEXT_CHARS THEN slice(t, 0, MAX_TEXT_CHARS) ELSE t

ReceiveScan(r, txt, scan) ==
  /\ reqs' = [reqs EXCEPT ![r] = [@ EXCEPT !.text = txt, !.hints = scan.hints,
                                           !.calls = 1, !.pc = "call1"]]
  /\ rxIndex' = scan.rx

ConcReceive(r) ==
  /\ reqs[r].pc = "start"
  /\ IF trim(reqs[r].body) = ""
     THEN /\ reqs' = [reqs EXCEPT ![r] = [@ EXCEPT !.response = [status |-> 400, error |-> "Text manke"],
                                                  !.pc = "done"]]
          /\ UNCHANGED rxIndex
     ELSE ReceiveScan(r, Clipped(reqs[r].body), buildHintsShared(Clipped(reqs[r].body), rxIndex))
  /\ UNCHANGED <<handler, body, script, pc, text, hints, calls, response, X, merged, remerged, normVars, sideVars>>

\* Request q after its first oracle call settled with outcome o
AfterSettle1(h, q, o) ==
  IF o.kind = "reject"
  THEN [q EXCEPT !.response = ErrorResponse(o.name), !.pc = "done"]
  ELSE IF TryThrows(o)
  THEN [q EXCEPT !.calls = q.calls + 1, !.pc = "call2"]
  ELSE [q EXCEPT !.response = [status |-> 200, result |-> AnalysisOf(h, o.value, q.text, q.hints)],
                 !.pc = "done"]

\* Request q after its second oracle call settled with outcome o
AfterSettle2(h, q, o) ==
  [q EXCEPT !.pc = "done",
            !.response =
               IF o.kind = "reject" THEN ErrorResponse(o.name)
               ELSE IF ~o.json THEN ErrorResponse("SyntaxError")
               ELSE IF "issues" \notin DOMAIN o.value THEN ErrorResponse("TypeError")
               ELSE [status |-> 200, result |-> AnalysisOf(h, o.value, q.text, q.hints)]]

ConcSettle1(r) ==
  /\ reqs[r].pc = "call1"
  /\ reqs' = [reqs EXCEPT ![r] = AfterSettle1(handler, @, @.script[1])]
  /\ UNCHANGED <<handler, body, script, pc, text, hints, calls, response, X, merged, remerged,
                 normVars, rxIndex, sideVars>>

ConcSettle2(r) ==
  /\ reqs[r].pc = "call2"
  /\ reqs' = [reqs EXCEPT ![r] = AfterSettle2(handler, @, @.script[2])]
  /\ UNCHANGED <<handler, body, script, pc, text, hints, calls, response, X, merged, remerged,
                 normVars, rxIndex, sideVars>>

\* Some request takes its next step
Arrive == \E r \in 1..Len(reqs) : ConcReceive(r)
FirstSettles == \E r \in 1..Len(reqs) : ConcSettle1(r)
SecondSettles == \E r \in 1..Len(reqs) : ConcSettle2(r)

NextConcurrent == Arrive \/ FirstSettles \/ SecondSettles

MaxRequests == 2

ConcTexts == {" ", "bet", "fam zot bet"}

ConcCandidates ==
  { [start |-> 0, end |-> 3, quote |-> "", offense |-> "hate", severity |-> "2", rationale |-> "r"] }

ConcScripts ==
  {<<[kind |-> "reject", name |-> "AbortError"]>>}
  \cup {<<[kind |-> "resolve", json |-> TRUE, value |-> [overall_label |-> "safe", issues |-> <<c>>]]>> :
          c \in ConcCandidates}
  \cup {<<[kind |-> "resolve", json |-> FALSE],
           [kind |-> "resolve", json |-> TRUE, value |-> [overall_label |-> "safe", issues |-> <<>>]]>>}

NewRequest(t, sc) ==
  [body |-> t, script |-> sc, pc |-> "start", text |-> "", hints |-> <<>>, calls |-> 0,
   response |-> NoResponse]

InitConcurrent ==
  /\ handler \in Handlers
  /\ reqs \in [1..MaxRequests -> {NewRequest(t, sc) : t \in ConcTexts, sc \in ConcScripts}]
  /\ rxIndex = IndexesAtRest
  /\ lex = <<>> /\ ui = <<>>
  /\ body = [kind |-> "malformed"]
  /\ script = <<>>
  /\ pc = "done"
  /\ text = ""
  /\ hints = <<>>
  /\ calls = 0
  /\ response = NoResponse
  /\ X = <<>>
  /\ merged = <<>>
  /\ remerged = <<>>
  /\ NormIdle

SpecConcurrent == InitConcurrent /\ [][NextConcurrent]_vars

\* What request q alone determines: its hints once it got past the blank
\* check, and its result once it answered 200
OwnHints(q) == q.calls >= 1 => q.text = Clipped(q.body) /\ q.hints = buildHints(q.text)
OwnResult(h, q) ==
  (q.pc = "done" /\ q.response.status = 200) =>
     q.response.result = AnalysisOf(h, q.script[q.calls].value, q.text, buildHints(q.text))

C19_EmptyTextIsSafe ==
  (Answered /\ text = "") => result = [overall_label |-> "safe", issues |-> <<>>]

(***************************************************************************)
(* The spans of mergeOverlaps                                              *)
(***************************************************************************)
Spans(issues) == [j \in 1..Len(issues) |-> <<issues[j].start, issues[j].end>>]

\* issues with the elements at k and k + 1 exchanged
Swapped(issues, k) ==
  [j \in 1..Len(issues) |->
     IF j = k THEN issues[k + 1] ELSE IF j = k + 1 THEN issues[k] ELSE issues[j]]

\* Every candidate lies within an output span; an output span runs from the
\* least start to the greatest end of the candidates within it; output spans
\* lie strictly apart in ascending order; every unit of an output span is
\* covered by a candidate.
IsMinimalCover(out, in) ==
  /\ \A k \in 1..Len(in) :
        \E j \in 1..Len(out) : out[j].start <= in[k].start /\ in[k].end <= out[j].end
  /\ \A j \in 1..Len(out) :
        /\ \E k \in 1..Len(in) : in[k].start = out[j].start
        /\ \E k \in 1..Len(in) : in[k].end = out[j].end
        /\ out[j].start <= out[j].end
        /\ \A p \in out[j].start..(out[j].end - 1) :
              \E k \in 1..Len(in) : in[k].start <= p /\ p + 1 <= in[k].end
  /\ \A j \in 1..(Len(out) - 1) : out[j].end < out[j + 1].start

\* C20: for candidates with start <= end the spans output by mergeOverlaps are
\* the minimal cover: candidates that overlap or touch share one output span,
\* which runs from their least start to their greatest end, the output spans
\* cover what the candidates cover and nothing else, and exchanging two
\* neighbours of the input list leaves the output spans as they are.
C20_MinimalCover ==
  pc = "done" =>
     /\ IsMinimalCover(merged, X)
     /\ \A k \in 1..(Len(X) - 1) :
           Spans(MergeOf(handler, Swapped(X, k))) = Spans(merged)

\* three candidates given out of order: two that only touch became one span
\* and the third, apart from them, stayed alone
C20_Witness ==
  /\ pc = "done"
  /\ Len(X) = 3 /\ Len(merged) = 2
  /\ X[1].start > X[2].start
  /\ \E j, k \in 1..3 : X[j].start < X[j].end /\ X[j].end = X[k].start /\ X[k].start < X[k].end
  /\ merged[1].end < merged[2].start

(***************************************************************************)
(* Letter runs                                                             *)
(***************************************************************************)
\* No more than n identical consecutive characters in s
NoRunLongerThan(s, n) ==
  \A p \in 0..(Len(s) - n - 1) : \E k \in 1..n : charAt(s, p + k) # charAt(s, p)

RECURSIVE Repeat(_, _)
Repeat(c, n) == IF n = 0 THEN "" ELSE Repeat(c, n - 1) \o c

\* The number of characters of s that are in set
CountIn(s, set) == Cardinality({p \in 0..(Len(s) - 1) : charAt(s, p) \in set})

\* A raw text that spells the letter a over and over, in either case, with or
\* without a combining mark after it
SpellsOneLetter(s) ==
  /\ s # "" /\ charAt(s, 0) # "~"
  /\ \A p \in 0..(Len(s) - 1) : charAt(s, p) \in {"a", "A", "~"}

Folding == "foldDiacritics" \notin DOMAIN options \/ options.foldDiacritics
Lowering == "lowercase" \notin DOMAIN options \/ options.lowercase

\* C21: for every raw text and every repeatMax >= 1 the canonical text has no
\* run of more than repeatMax identical characters; raw runs of one letter in
\* any case or diacritic spelling collapse to the same canonical run; a
\* repeatMax below 1 behaves as 1.
C21_RunsAtMostRepeatMax ==
  (Normalized /\ "repeatMax" \in DOMAIN options) =>
     /\ NoRunLongerThan(normed.norm, Max(1, options.repeatMax))
     /\ (Folding /\ Lowering /\ SpellsOneLetter(text)) =>
           normed.norm = Repeat("a", Min(CountIn(text, {"a", "A"}), Max(1, options.repeatMax)))
     /\ options.repeatMax < 1 =>
           normed = normalizeForMatch(text, [options EXCEPT !.repeatMax = 1])

\* The raw character at p emitted nothing although it is no combining mark:
\* run collapsing dropped it
DroppedByCollapse(p) ==
  /\ p < Len(text)
  /\ charAt(text, p) # "~"
  /\ \A k \in 1..Len(normed.map) : normed.map[k] # p

\* The canonical range is a proper one whose last character is the last
\* retained character of a run that was cut
EndsOnCutRun ==
  /\ pc = "done"
  /\ 0 <= range[1] /\ range[1] < range[2] /\ range[2] <= Len(normed.map)
  /\ DroppedByCollapse(normed.map[range[2]] + 1)

\* C22: when a canonical match ends on the last retained character of a run
\* that repeatMax cut, the raw span ends one past the raw index of that
\* character, so the dropped raw characters after it are outside the span.
C22_DroppedTailOutside ==
  EndsOnCutRun =>
     /\ rawSpan.start = normed.map[range[1] + 1]
     /\ rawSpan.end = normed.map[range[2]] + 1
     /\ \A p \in rawSpan.start..(rawSpan.end - 1) : p <= normed.map[range[2]]

\* the whole canonical text of a raw run of three letters cut to two
C22_Witness ==
  /\ EndsOnCutRun
  /\ Len(text) = 3 /\ normed.norm = "aa"
  /\ range = <<0, 2>> /\ rawSpan = [start |-> 0, end |-> 2]

(***************************************************************************)
(* The lexicon, term by term                                               *)
(*                                                                         *)
(* lex holds one term of LEXICON with its bucket, what the expander makes  *)
(* of it (w = basicNorm, stripped = noVowels(w), forms = makeAbbrevForms)  *)
(* and how the raw text was built from it; text is that raw text and hints *)
(* what buildHints finds in it.                                            *)
(***************************************************************************)
Expand ==
  /\ pc = "expand"
  /\ lex' = [lex EXCEPT !.w = basicNorm(lex.term),
                        !.stripped = noVowels(basicNorm(lex.term)),
                        !.forms = makeAbbrevForms(lex.term)]
  /\ pc' = "scan"
  /\ UNCHANGED <<handler, body, script, text, hints, calls, response, X, merged, remerged,
                 normVars, concVars, ui>>

Scan ==
  /\ pc = "scan"
  /\ hints' = buildHints(text)
  /\ pc' = "done"
  /\ UNCHANGED <<handler, body, script, text, calls, response, X, merged, remerged,
                 normVars, concVars, sideVars>>

NextLexicon == Expand \/ Scan

Terms ==
  UNION {{[bucket |-> b, term |-> LEXICON[b][k]] : k \in 1..Len(LEXICON[b])} :
           b \in DOMAIN LEXICON}

\* term with its letter at i written n times
Stretched(term, i, n) ==
  SubSeq(term, 1, i) \o Repeat(charAt(term, i), n) \o SubSeq(term, i + 2, Len(term))

MaxStretch == 4

\* What may stand before and after a word: nothing, a blank, a digit, a
\* full stop, a combining mark, and three letters: x, e with acute accent
\* ("@") and o with stroke ("%", a letter that has no decomposition)
LetterFrames == {"x", "@", "%"}
Frames == {"", " ", "1", ".", "~"} \cup LetterFrames

Elements(seq) == {seq[k] : k \in 1..Len(seq)}

\* The raw texts built from a term: the term alone, the term with one of its
\* letters written three or more times, and the term or one of its
\* abbreviation variants between two frames
Shapes(t) ==
  {[shape |-> "alone", text |-> t.term]}
  \cup {[shape |-> "stretched", at |-> i, times |-> n, text |-> Stretched(t.term, i, n)] :
          i \in 0..(Len(t.term) - 1), n \in 3..MaxStretch}
  \cup {[shape |-> "framed", pre |-> a, core |-> c, post |-> b, text |-> a \o c \o b] :
          a \in Frames, c \in Elements(TermAlts(t.term)), b \in Frames}

\* The expander and the matchers are the same code in both revisions.
InitLexicon ==
  /\ handler = "part_002"
  /\ \E t \in Terms : \E sh \in Shapes(t) :
        /\ lex = [bucket |-> t.bucket, term |-> t.term, built |-> sh,
                  w |-> "", stripped |-> "", forms |-> <<>>]
        /\ text = sh.text
        /\ body = [kind |-> "string", text |-> sh.text]
  /\ pc = "expand"
  /\ script = <<>>
  /\ hints = <<>>
  /\ calls = 0
  /\ response = NoResponse
  /\ X = <<>>
  /\ merged = <<>>
  /\ remerged = <<>>
  /\ NormIdle
  /\ reqs = <<>> /\ rxIndex = IndexesAtRest /\ ui = <<>>

SpecLexicon == InitLexicon /\ [][NextLexicon]_vars

Expanded == pc \in {"scan", "done"}

SeqHas(seq, x) == \E k \in 1..Len(seq) : seq[k] = x

\* C23: the vowel-stripped variant of every lexicon term has no vowel left
\* (every vowel is removed, not only the first), and it is kept exactly when
\* it has at least 3 characters and differs from the full term.
C23_VowelStrippedHasNoVowel ==
  Expanded =>
     /\ \A p \in 0..(Len(lex.stripped) - 1) : ~isVowel(charAt(lex.stripped, p))
     /\ SeqHas(lex.forms, lex.stripped) <=> (Len(lex.stripped) >= 3 /\ lex.stripped # lex.w)

\* The hints of the dictionary pass: the stereotype pass tags bias, no bucket does
LexiconHints == {k \in 1..Len(hints) : hints[k].kind # "bias"}

Canon == normalizeForMatch(text, [foldDiacritics |-> TRUE, lowercase |-> TRUE, repeatMax |-> 2])

\* The canonical range [ns, ne) holds an alternative of a bucket that emits
\* kind, with no letter right before it and none right after it
BoundedOccurrence(nm, ns, ne, kind) ==
  /\ \E b \in DOMAIN LEXICON :
        OFFENSE_FOR_BUCKET[b] = kind /\ SeqHas(BUCKET_REGEX[b], slice(nm.norm, ns, ne))
  /\ ns = 0 \/ ~isLetter(charAt(nm.norm, ns - 1))
  /\ ne = Len(nm.norm) \/ ~isLetter(charAt(nm.norm, ne))

HintFromOccurrence(nm, h) ==
  \E ns \in 0..Len(nm.norm) : \E ne \in (ns + 1)..Len(nm.norm) :
     /\ BoundedOccurrence(nm, ns, ne, h.kind)
     /\ toOriginalSpan(ns, ne, nm.map) = [start |-> h.start, end |-> h.end]

\* The raw span of the core of a framed text, and whether a hint of the
\* bucket's kind has exactly that span
CoreHinted ==
  \E k \in LexiconHints :
     /\ hints[k].kind = OFFENSE_FOR_BUCKET[lex.bucket]
     /\ hints[k].start = Len(lex.built.pre)
     /\ hints[k].end = Len(lex.built.pre) + Len(lex.built.core)

\* C24: a lexicon hint is produced only for an occurrence of a base term or
\* abbreviation variant in the canonical text with no letter (ASCII or not)
\* right before or after it; an occurrence inside a longer word yields no
\* hint, one bounded by a blank, digit, punctuation or the text boundary does.
C24_HintsOnlyAtWordBounds ==
  pc = "done" =>
     /\ \A k \in LexiconHints : HintFromOccurrence(Canon, hints[k])
     /\ lex.built.shape = "framed" =>
           (CoreHinted <=> (lex.built.pre \notin LetterFrames /\ lex.built.post \notin LetterFrames))

\* a variant between a digit and a full stop is found, at its raw offsets
C24_Witness ==
  /\ pc = "done"
  /\ lex.built.shape = "framed" /\ lex.built.pre = "1" /\ lex.built.post = "."
  /\ lex.built.core # lex.term
  /\ CoreHinted

(***************************************************************************)
(* The stereotype pass of buildHints on texts made of a subject, a gap, a  *)
(* modal, a gap and a pejorative.                                          *)
(***************************************************************************)
\* n characters that no group matches and that no collapse shortens
RECURSIVE Fill(_)
Fill(n) == IF n = 0 THEN "" ELSE (IF n % 2 = 0 THEN "-" ELSE " ") \o Fill(n - 1)

StereoGapTexts ==
  {"", " ", "~", " . ", " ! ", " ? ", " \n ", " aaaa ", Fill(StereoGap), Fill(StereoGap + 1)}

StereoBuilt ==
  {[shape |-> "stereotype", pre |-> a, subject |-> sj, gap1 |-> g1, modal |-> md,
    gap2 |-> g2, pejorative |-> pj, post |-> b,
    text |-> a \o sj \o g1 \o md \o g2 \o pj \o b] :
     a \in {"", "x"}, sj \in {"fam", "Dimounnnn", "Ras"}, g1 \in StereoGapTexts,
     md \in {"zot", "MUST"}, g2 \in StereoGapTexts, pj \in {"bet", "w@ak"},
     b \in {"", "~"}}

\* at most one of the two gaps is a long one
StereoShapes == {sh \in StereoBuilt : Len(sh.gap1) < StereoGap \/ Len(sh.gap2) < StereoGap}

InitStereotype ==
  /\ handler = "part_002"
  /\ \E sh \in StereoShapes :
        /\ lex = [built |-> sh]
        /\ text = sh.text
        /\ body = [kind |-> "string", text |-> sh.text]
  /\ pc = "scan"
  /\ script = <<>>
  /\ hints = <<>>
  /\ calls = 0
  /\ response = NoResponse
  /\ X = <<>>
  /\ merged = <<>>
  /\ remerged = <<>>
  /\ NormIdle
  /\ reqs = <<>> /\ rxIndex = IndexesAtRest /\ ui = <<>>

SpecStereotype == InitStereotype /\ [][Scan]_vars

StereotypeHintsOf == {k \in 1..Len(hints) : hints[k].kind = "bias"}

CanonLen(s) ==
  Len(normalizeForMatch(s, [foldDiacritics |-> TRUE, lowercase |-> TRUE, repeatMax |-> 2]).norm)

NoSentenceEnd(s) == \A k \in 0..(Len(s) - 1) : charAt(s, k) \notin SentenceEnd

\* c reads subject, gap, modal, gap, pejorative with each gap at most
\* StereoGap characters long
ReadsAsStereotype(c) ==
  \E i \in 1..Len(StereoSubjects) : \E j \in 1..Len(StereoPejoratives) :
     /\ LitAt(c, 0, StereoSubjects[i])
     /\ LitAt(c, Len(c) - Len(StereoPejoratives[j]), StereoPejoratives[j])
     /\ \E m \in 1..Len(StereoModals) :
           \E p \in Len(StereoSubjects[i])..Min(Len(StereoSubjects[i]) + StereoGap, Len(c)) :
              /\ LitAt(c, p, StereoModals[m])
              /\ Len(c) - Len(StereoPejoratives[j]) - (p + Len(StereoModals[m])) \in 0..StereoGap

HintFromStereotype(nm, h) ==
  \E ns \in 0..Len(nm.norm) : \E ne \in (ns + 1)..Len(nm.norm) :
     /\ toOriginalSpan(ns, ne, nm.map) = [start |-> h.start, end |-> h.end]
     /\ NoSentenceEnd(slice(nm.norm, ns, ne))
     /\ ReadsAsStereotype(slice(nm.norm, ns, ne))

\* the built text has both gaps within reach and free of sentence terminators
WithinOneSentence(b) ==
  /\ NoSentenceEnd(b.gap1) /\ NoSentenceEnd(b.gap2)
  /\ CanonLen(b.gap1) <= StereoGap /\ CanonLen(b.gap2) <= StereoGap

\* a bias hint from the first raw character of the subject to the last raw
\* character of the pejorative
SubjectToPejorative(b) ==
  \E k \in StereotypeHintsOf :
     /\ hints[k].start = Len(b.pre)
     /\ hints[k].end = Len(b.text) - Len(b.post)

\* C25: every stereotype hint corresponds to a canonical match subject, gap,
\* modal, gap, pejorative with each gap at most 60 characters and no sentence
\* terminator inside the matched span; it is tagged bias and its raw span runs
\* from the first raw character of the subject to the last raw character of
\* the pejorative.
C25_StereotypeWithinSentence ==
  pc = "done" =>
     /\ \A k \in StereotypeHintsOf : HintFromStereotype(Canon, hints[k])
     /\ SubjectToPejorative(lex.built) <=> WithinOneSentence(lex.built)
     /\ ~WithinOneSentence(lex.built) => StereotypeHintsOf = {}

\* a match whose first gap is as long as a gap may be and whose second gap
\* is a run the canonical text shortens
C25_Witness ==
  /\ pc = "done"
  /\ lex.built.gap1 = Fill(StereoGap) /\ lex.built.gap2 = " aaaa "
  /\ lex.built.subject = "Dimounnnn" /\ lex.built.post = "~"
  /\ SubjectToPejorative(lex.built)

\* C26: with repeatMax = 2, a raw word that is a lexicon base term with one
\* of its letters written three or more times (baaaat for bat, canonical
\* baat) produces no lexicon hint for that term.
C26_StretchedWordUnhinted ==
  (pc = "done" /\ lex.built.shape = "stretched") =>
     /\ ~NoRunLongerThan(Canon.norm, 1)
     /\ LexiconHints = {}

\* baaaat has been scanned: its canonical text is baat and nothing is hinted
C26_Witness ==
  /\ pc = "done"
  /\ lex.term = "bat" /\ text = "baaaat"
  /\ Canon.norm = "baat"
  /\ hints = <<>>

\* a hint of the kind of the term's bucket that spans the whole raw text
WholeTermHinted ==
  \E k \in 1..Len(hints) :
     /\ hints[k].kind = OFFENSE_FOR_BUCKET[lex.bucket]
     /\ hints[k].start = 0 /\ hints[k].end = Len(text)

\* C27: for every term of LEXICON, the raw text that is exactly that term
\* yields at least one hint of the kind of its bucket whose span covers the
\* whole term, terms with a doubled letter included.
C27_EveryTermHintsItself ==
  (pc = "done" /\ lex.built.shape = "alone") => WholeTermHinted

\* The first oracle output is text that JSON.parse accepts and that
\* postProcess can walk
FirstOutputParses ==
  /\ script[1].kind = "resolve"
  /\ script[1].json
  /\ "issues" \in DOMAIN script[1].value

FirstOutputFails ==
  /\ script[1].kind = "resolve"
  /\ ~script[1].json \/ "issues" \notin DOMAIN script[1].value

\* C28: per request analyzeWithRepair makes at most two oracle calls; the
\* second is made only after the first returned an output that failed to
\* parse or post-process; a first call that rejects or is aborted is not
\* retried; when the first output parses the result comes from it and no
\* second call is made.
C28_AtMostOneRetry ==
  /\ calls <= 2
  /\ calls = 2 => (pc \in {"call2", "done"} /\ FirstOutputFails)
  /\ (pc = "done" /\ calls >= 1 /\ script[1].kind = "reject") =>
        (calls = 1 /\ response = ErrorResponse(script[1].name))
  /\ (pc = "done" /\ calls >= 1 /\ FirstOutputParses) =>
        /\ calls = 1
        /\ response = [status |-> 200,
                        result |-> AnalysisOf(handler, script[1].value, text, hints)]

\* the first output did not parse and the answer is that of the second call
C28_Witness ==
  /\ pc = "done" /\ calls = 2
  /\ ~script[1].json
  /\ response.status = 200
  /\ response.result = AnalysisOf(handler, script[2].value, text, hints)

(***************************************************************************)
(* The page component: analyzeCsv, one call per uploaded file.             *)
(*                                                                         *)
(* ui.page is the revision of the component ("page" = app/page.tsx,        *)
(* "part_004" = the later one).  A batch is one call of analyzeCsv; its    *)
(* number stands for its AbortController.  A fetch of a batch is "idle"    *)
(* (not issued yet), "pending", "aborting" (its signal was aborted, the    *)
(* rejection has not been delivered yet) or settled as "fulfilled",        *)
(* "AbortError" or "Error".  An entry of csvResults carries the batch that *)
(* wrote it next to the value ("data", or "null" for a failed cell).       *)
(***************************************************************************)
Pages == {"page", "part_004"}

BATCH == 6

\* the jobs list: the non-blank cells in row order
RECURSIVE CellJobs(_, _, _)
CellJobs(rows, r, c) ==
  IF r >= Len(rows) THEN <<>>
  ELSE IF c >= Len(rows[r + 1]) THEN CellJobs(rows, r + 1, 0)
  ELSE (IF Len(trim(rows[r + 1][c + 1])) > 0
        THEN <<[r |-> r, c |-> c, text |-> rows[r + 1][c + 1]]>> ELSE <<>>)
       \o CellJobs(rows, r, c + 1)

JobKey(job) == <<job.r, job.c>>

\* jobs.slice(i, i + BATCH), as indexes into jobs
SliceOf(bt) == (bt.i + 1)..Min(bt.i + BATCH, Len(bt.jobs))

Unsettled == {"idle", "pending", "aborting"}

\* fetch called with the signal of batch b.  In page.tsx the signal is the
\* controller's own, so a fetch issued after abort() rejects; in part_004 it
\* is the one mergeSignals makes, which only hears an abort that comes later.
FetchStart(page, signalled) ==
  IF page = "page" /\ signalled THEN "aborting" ELSE "pending"

\* slice.map(... postAnalyze(...)): the fetches of the current slice go out
Issue(bt, status) ==
  [bt EXCEPT !.fetch = [j \in 1..Len(bt.jobs) |-> IF j \in SliceOf(bt) THEN status ELSE bt.fetch[j]],
             !.pc = "await"]

\* controller.abort(): every fetch in flight on that signal will reject
Abort(bt) ==
  [bt EXCEPT !.fetch = [j \in 1..Len(bt.jobs) |->
                          IF bt.fetch[j] = "pending" THEN "aborting" ELSE bt.fetch[j]]]

\* setCsvResults((prev) => ({ ...prev, [key]: v })) for the keys in ks
WriteAll(prev, ks, v) ==
  [k \in DOMAIN prev \cup ks |-> IF k \in ks THEN v[k] ELSE prev[k]]

\* the for loop at index bt.i: the next slice goes out, or the loop is over
\* and the finally block runs
LoopAt(u, b, bt) ==
  IF bt.i < Len(bt.jobs)
  THEN [u EXCEPT !.batches[b] = Issue(bt, FetchStart(u.page, b \in u.signalled))]
  ELSE [u EXCEPT !.batches[b] = [bt EXCEPT !.pc = "ended"], !.csvLoading = FALSE]

AbortCurrent(u) ==
  IF u.csvAbortRef = 0 THEN u
  ELSE [u EXCEPT !.signalled = @ \cup {u.csvAbortRef},
                 !.batches[u.csvAbortRef] = Abort(@)]

NewBatch(jobs) ==
  [jobs |-> jobs, i |-> 0, fetch |-> [j \in 1..Len(jobs) |-> "idle"], pc |-> "start"]

\* analyzeCsv(rows) up to its first await
Started(u, b, jobs) ==
  LoopAt([u EXCEPT !.csvAbortRef = b, !.csvResults = <<>>, !.csvLoading = TRUE,
                   !.batches = Append(@, NewBatch(jobs)), !.uploads = Tail(@)],
         b, NewBatch(jobs))

StartBatch ==
  /\ pc = "csv"
  /\ ui.uploads # <<>>
  /\ ui' = Started(AbortCurrent(ui), Len(ui.batches) + 1, CellJobs(Head(ui.uploads), 0, 0))
  /\ UNCHANGED <<handler, body, script, pc, text, hints, calls, response, X, merged, remerged,
                 normVars, concVars, lex>>

\* what the cell of job j shows once its fetch has settled as st
EntryOf(b, st) == [by |-> b, value |-> IF st = "fulfilled" THEN "data" ELSE "null"]

SliceKeys(bt, sts) == {JobKey(bt.jobs[j]) : j \in {n \in SliceOf(bt) : sts[n] \in {"fulfilled", "Error"}}}

\* page.tsx: the callback of one cell runs when its fetch settles (an
\* AbortError writes nothing); Promise.all resolves with the last one
SettledPage(u, b, bt, j, st) ==
  LET u1 == IF st = "AbortError" THEN u
            ELSE [u EXCEPT !.csvResults = WriteAll(@, {JobKey(bt.jobs[j])},
                                                   [k \in {JobKey(bt.jobs[j])} |-> EntryOf(b, st)])]
      bt1 == [bt EXCEPT !.fetch[j] = st]
  IN  IF \E n \in SliceOf(bt1) : bt1.fetch[n] \in Unsettled
      THEN [u1 EXCEPT !.batches[b] = bt1]
      ELSE LoopAt(u1, b, [bt1 EXCEPT !.i = @ + BATCH])

\* part_004: Promise.allSettled resolves with the last fetch of the slice,
\* then every cell of the slice is written: the value, or null for any
\* rejection; the loop then waits for a timer
SettledPart004(u, b, bt, j, st) ==
  LET bt1 == [bt EXCEPT !.fetch[j] = st]
      keys == {JobKey(bt1.jobs[n]) : n \in SliceOf(bt1)}
      entry == [k \in keys |->
                  EntryOf(b, bt1.fetch[CHOOSE n \in SliceOf(bt1) : JobKey(bt1.jobs[n]) = k])]
  IN  IF \E n \in SliceOf(bt1) : bt1.fetch[n] \in Unsettled
      THEN [u EXCEPT !.batches[b] = bt1]
      ELSE [u EXCEPT !.csvResults = WriteAll(@, keys, entry),
                     !.batches[b] = [bt1 EXCEPT !.pc = "yield"]]

Settled(u, b, j, st) ==
  IF u.page = "page" THEN SettledPage(u, b, u.batches[b], j, st)
  ELSE SettledPart004(u, b, u.batches[b], j, st)

\* how a fetch can settle
Settlements(status) ==
  IF status = "aborting" THEN {"AbortError"}
  ELSE IF status = "pending" THEN {"fulfilled", "Error"} ELSE {}

\* one fetch settles
Settle ==
  /\ pc = "csv"
  /\ \E b \in 1..Len(ui.batches) : \E j \in 1..Len(ui.batches[b].jobs) :
        \E st \in Settlements(ui.batches[b].fetch[j]) :
           ui' = Settled(ui, b, j, st)
  /\ UNCHANGED <<handler, body, script, pc, text, hints, calls, response, X, merged, remerged,
                 normVars, concVars, lex>>

\* part_004: the timer of "await new Promise((r) => setTimeout(r, 0))" fires
Resume ==
  /\ pc = "csv"
  /\ \E b \in 1..Len(ui.batches) :
        /\ ui.batches[b].pc = "yield"
        /\ ui' = LoopAt(ui, b, [ui.batches[b] EXCEPT !.i = @ + BATCH])
  /\ UNCHANGED <<handler, body, script, pc, text, hints, calls, response, X, merged, remerged,
                 normVars, concVars, lex>>

NextCsv == StartBatch \/ Settle \/ Resume

\* the files a user uploads: no cell, one cell, two cells among blank ones,
\* and more cells than one slice holds
Sheets ==
  {<<>>, <<<<"bet">>>>, <<<<"bet", " ">>, <<"", "bat">>>>,
   <<<<"a", "b", "c", "d">>, <<"e", "f", "g">>>>}

\* two uploads in a row, at most one of them the large one
UploadPlans ==
  {<<s1, s2>> : s1 \in Sheets, s2 \in Sheets} \ {<<s, s>> : s \in {sh \in Sheets : Len(sh) = 2 /\ Len(sh[1]) = 4}}

InitCsv ==
  /\ handler = "part_002"
  /\ body = [kind |-> "notext"]
  /\ script = <<>>
  /\ pc = "csv"
  /\ text = ""
  /\ hints = <<>>
  /\ calls = 0
  /\ response = NoResponse
  /\ X = <<>>
  /\ merged = <<>>
  /\ remerged = <<>>
  /\ NormIdle
  /\ reqs = <<>> /\ rxIndex = IndexesAtRest /\ lex = <<>>
  /\ \E pg \in Pages : \E plan \in UploadPlans :
        ui = [page |-> pg, csvResults |-> <<>>, csvLoading |-> FALSE, csvAbortRef |-> 0,
              signalled |-> {}, batches |-> <<>>, uploads |-> plan]

SpecCsv == InitCsv /\ [][NextCsv]_vars

\* the batch that is current has a cell whose analysis has not settled
CurrentUnsettled ==
  \E j \in 1..Len(ui.batches[ui.csvAbortRef].jobs) :
     ui.batches[ui.csvAbortRef].fetch[j] \in Unsettled

\* C29: when a new CSV batch is started while an earlier one is running, the
\* earlier batch is aborted and from then on does not alter the state of the
\* new batch: it writes no entry into csvResults, and csvLoading stays true
\* for as long as the new batch has cells whose analysis has not settled.
C29_AbortedBatchIsSilent ==
  (pc = "csv" /\ Len(ui.batches) = 2) =>
     /\ 1 \in ui.signalled
     /\ \A k \in DOMAIN ui.csvResults : ui.csvResults[k].by = 2
     /\ CurrentUnsettled => ui.csvLoading

(***************************************************************************)
(* The Summary of the page component                                       *)
(***************************************************************************)
\* issues.reduce((acc, i) => (i.severity > acc ? i.severity : acc), 0)
RECURSIVE SeverityReduce(_, _)
SeverityReduce(issues, acc) ==
  IF issues = <<>> THEN acc
  ELSE SeverityReduce(Tail(issues), IF Head(issues).severity > acc THEN Head(issues).severity ELSE acc)

\* (null, which it returns for no issue, is held as -1)
maxSeverity(issues) == IF Len(issues) = 0 THEN -1 ELSE SeverityReduce(issues, 0)

deriveOverallLabelOf(issues, m) ==
  IF m = -1 \/ m = 0 THEN "safe"
  ELSE IF m = 1 THEN "risky"
  ELSE "unsafe"

deriveOverallLabel(issues) ==
  IF Len(issues) = 0 THEN "safe" ELSE deriveOverallLabelOf(issues, maxSeverity(issues))

\* C30: for every issue list, the overall label the Summary displays equals
\* the overall_label the server's reconcileOverall computes for the same
\* issues.
C30_SummaryAgreesWithServer ==
  (pc = "done" /\ handler = "part_002" /\ response.status = 200) =>
     deriveOverallLabel(response.result.issues)
       = reconcileOverall(response.result.overall_label, response.result.issues)

====
